---- MODULE Spec2Model ----
(***************************************************************************)
(* Model of the JarNox Command Copilot response pipeline: the code-fence   *)
(* unwrapper, comment stripper and comment-style resolver                  *)
(* (src/src/utils/textProcessor.ts), the action parser and the action      *)
(* executor (src/src/services/modelActions.ts), the backend call           *)
(* (src/src/services/llmService.ts) and the webview provider with the      *)
(* script of its page (src/src/ui/webviewProvider.ts).                     *)
(*                                                                         *)
(* A JavaScript string is a sequence of one-character strings; indexes     *)
(* are 0-based as in the source and -1 means "not found".                  *)
(***************************************************************************)
EXTENDS Integers, Sequences, FiniteSets, TLC

VARIABLES
    pc,                 \* control position of the call or handler under way
    text,               \* the string argument of the function under check
    result,             \* the value it returned
    workspaceFolders,   \* vscode.workspace.workspaceFolders: sequence of root paths
    action,             \* the ModelAction given to executeModelAction
    files,              \* the file system: path string -> content, existing files only
    fsCalls,            \* every vscode.workspace.fs call made, in order
    shown,              \* vscode.window.show*Message calls, in order
    opened,             \* documents opened in the editor, in order
    editor,             \* vscode.window.activeTextEditor
    inserted,           \* editBuilder.insert calls, in order
    existingContent,    \* appendToFile's local: what it read from the target
    inbox,              \* messages of the webview not yet handed to onDidReceiveMessage
    message,            \* the webview message whose handling is under way
    aiResponse,         \* what generateResponseForUser returned for it
    calls,              \* fetch, executeModelAction and insertCodeResponse calls, in order
    posted,             \* webview.postMessage calls, in order
    parked,             \* handlers waiting at an await while another one runs
    webview,            \* the state of the script of the webview page
    DEFAULT_LLM_CONFIG  \* the exported configuration object of llmService.ts

vars == <<pc, text, result, workspaceFolders, action, files, fsCalls, shown,
          opened, editor, inserted, existingContent, inbox, message, aiResponse,
          calls, posted, parked, webview, DEFAULT_LLM_CONFIG>>

requestVars == <<inbox, message, aiResponse, calls, posted, parked, webview,
                 DEFAULT_LLM_CONFIG>>

execVars == <<workspaceFolders, action, files, fsCalls, shown, opened, editor,
              inserted, existingContent>>

(***************************************************************************)
(* Bounds of the model.                                                    *)
(***************************************************************************)
MaxBody == 4
MaxTag == 1
MaxChars == 5
MaxNest == 8
MaxPieces == 4
MaxProse == 1
MaxPath == 6
MaxLead == 2
MaxQuoted == 3
MaxRequests == 2
MaxIdParts == 2
MaxLines == 3
MaxCalls == 3

(***************************************************************************)
(* JavaScript string primitives.                                           *)
(***************************************************************************)
\* Sequences over S of length 0..n.
SeqsUpTo(S, n) == UNION {[1..k -> S] : k \in 0..n}

\* Characters matched by \s and removed by String.prototype.trim.
WhiteSpace == {" ", "\n", "\r", "\t"}

Letters ==
    {"a", "b", "c", "d", "e", "f", "g", "h", "i", "j", "k", "l", "m", "n", "o", "p", "q",
     "r", "s", "t", "u", "v", "w", "x", "y", "z",
     "A", "B", "C", "D", "E", "F", "G", "H", "I", "J", "K", "L", "M", "N", "O", "P", "Q",
     "R", "S", "T", "U", "V", "W", "X", "Y", "Z"}

Digits == {"0", "1", "2", "3", "4", "5", "6", "7", "8", "9"}

\* Characters matched by [A-Za-z0-9_+#.\-]
TagChars == Letters \cup Digits \cup {"_", "+", "#", ".", "-"}

\* s.startsWith(p)
StartsWith(s, p) == Len(s) >= Len(p) /\ SubSeq(s, 1, Len(p)) = p

\* s.endsWith(p)
EndsWith(s, p) == Len(s) >= Len(p) /\ SubSeq(s, Len(s) - Len(p) + 1, Len(s)) = p

\* p occurs in s at 0-based index i
OccursAt(s, p, i) == i >= 0 /\ i + Len(p) <= Len(s) /\ SubSeq(s, i + 1, i + Len(p)) = p

\* s.indexOf(p)
IndexOf(s, p) ==
    IF \E i \in 0..Len(s) : OccursAt(s, p, i)
    THEN CHOOSE i \in 0..Len(s) : OccursAt(s, p, i) /\ \A j \in 0..(i - 1) : ~OccursAt(s, p, j)
    ELSE -1

\* s.lastIndexOf(p)
LastIndexOf(s, p) ==
    IF \E i \in 0..Len(s) : OccursAt(s, p, i)
    THEN CHOOSE i \in 0..Len(s) : OccursAt(s, p, i) /\ \A j \in (i + 1)..Len(s) : ~OccursAt(s, p, j)
    ELSE -1

\* s.slice(a, b) for 0 <= a, b
Slice(s, a, b) == SubSeq(s, a + 1, b)

\* Length of the longest run of characters of S in s from 0-based index i.
RunLen(s, S, i) ==
    IF \E n \in 0..(Len(s) - i) : \A k \in 1..n : s[i + k] \in S
    THEN CHOOSE n \in 0..(Len(s) - i) :
            /\ \A k \in 1..n : s[i + k] \in S
            /\ (i + n < Len(s) => s[i + n + 1] \notin S)
    ELSE 0

\* s.replace(/\s+$/g, '')
TrimEnd(s) ==
    IF \A k \in 1..Len(s) : s[k] \in WhiteSpace THEN <<>>
    ELSE SubSeq(s, 1, CHOOSE n \in 1..Len(s) :
                        s[n] \notin WhiteSpace /\ \A k \in (n + 1)..Len(s) : s[k] \in WhiteSpace)

\* s.trim()
Trim(s) ==
    LET e == TrimEnd(s) IN SubSeq(e, RunLen(e, WhiteSpace, 0) + 1, Len(e))

(***************************************************************************)
(* unwrapCodeFence (src/src/utils/textProcessor.ts:75-97)                  *)
(***************************************************************************)
\* The backtick character (no TLA+ string can hold it).
Backtick == "BACKTICK"

fenceMarker == <<Backtick, Backtick, Backtick>>

\* The length matched at index 0 by /^\s*[A-Za-z0-9_+#.\-]*\s*\n/, or -1 when the
\* regular expression does not match.  The three starred parts are greedy and
\* give characters back in the backtracking order of the engine: the first
\* \s* gives back last.
TagLineMatches(s) ==
    {m \in (0..Len(s)) \X (0..Len(s)) \X (0..Len(s)) :
        /\ m[1] <= RunLen(s, WhiteSpace, 0)
        /\ m[2] <= RunLen(s, TagChars, m[1])
        /\ m[3] <= RunLen(s, WhiteSpace, m[1] + m[2])
        /\ m[1] + m[2] + m[3] < Len(s)
        /\ s[m[1] + m[2] + m[3] + 1] = "\n"}

Preferred(m, n) ==
    \/ m[1] > n[1]
    \/ m[1] = n[1] /\ m[2] > n[2]
    \/ m[1] = n[1] /\ m[2] = n[2] /\ m[3] >= n[3]

TagLineMatchLen(s) ==
    LET ms == TagLineMatches(s) IN
    IF ms = {} THEN -1
    ELSE LET m == CHOOSE m \in ms : \A n \in ms : Preferred(m, n)
         IN m[1] + m[2] + m[3] + 1

\* A variant of StripLanguageTag that applies the replacement to the following
\* line as well (the regular expression given the flags g and m).
StripLanguageTagEveryLine(codeContent) ==
    LET n == TagLineMatchLen(codeContent)
        once == IF n = -1 THEN codeContent ELSE SubSeq(codeContent, n + 1, Len(codeContent))
        k == TagLineMatchLen(once)
    IN IF k = -1 THEN once ELSE SubSeq(once, k + 1, Len(once))

\* codeContent.replace(/^\s*[A-Za-z0-9_+#.\-]*\s*\n/, '')
StripLanguageTag(codeContent) ==
    LET n == TagLineMatchLen(codeContent) IN
    IF n = -1 THEN codeContent ELSE SubSeq(codeContent, n + 1, Len(codeContent))

unwrapCodeFence(t) ==
    IF t = <<>> THEN <<>>
    ELSE LET startPos == IndexOf(t, fenceMarker)
             endPos == LastIndexOf(t, fenceMarker)
         IN IF startPos # -1 /\ endPos # -1 /\ endPos > startPos
            THEN Trim(StripLanguageTag(Slice(t, startPos + Len(fenceMarker), endPos)))
            ELSE Trim(t)

(***************************************************************************)
(* stripComments (src/src/utils/textProcessor.ts:115-144)                  *)
(***************************************************************************)
\* text.replace(/<open>[\s\S]*?<close>/g, ''): every span from an opening
\* delimiter to the nearest closing delimiter after it, left to right.
RECURSIVE RemoveSpans(_, _, _)
RemoveSpans(s, open, close) ==
    LET i == IndexOf(s, open) IN
    IF i = -1 THEN s
    ELSE LET rest == Slice(s, i + Len(open), Len(s))
             j == IndexOf(rest, close)
         IN IF j = -1 THEN s
            ELSE Slice(s, 0, i) \o RemoveSpans(Slice(rest, j + Len(close), Len(rest)), open, close)

\* The characters at which ^ and $ match under the m flag, and that . skips.
LineTerminators == {"\n", "\r"}

\* A variant of AtLineStart for a pattern written without the leading ^.
AtLineStartAnywhere(s, p) == TRUE

\* ^ under the m flag at 0-based index p
AtLineStart(s, p) == p = 0 \/ s[p] \in LineTerminators

\* 0-based index of the end of the line that holds index q: where .*$ stops.
LineEnd(s, q) ==
    CHOOSE e \in q..Len(s) :
        /\ (e = Len(s) \/ s[e + 1] \in LineTerminators)
        /\ \A k \in (q + 1)..e : s[k] \notin LineTerminators

\* "//" at index q
SlashCommentAt(s, q) == OccursAt(s, <<"/", "/">>, q)

\* A variant of HashCommentAt without the negative lookahead.
HashCommentAtNoShebang(s, q) == OccursAt(s, <<"#">>, q)

\* "#(?!\!)" at index q
HashCommentAt(s, q) == OccursAt(s, <<"#">>, q) /\ ~OccursAt(s, <<"!">>, q + 1)

CommentAt(s, q, kind) ==
    IF kind = "slash" THEN SlashCommentAt(s, q) ELSE HashCommentAt(s, q)

\* A variant of MatchLineComment whose "//" pattern has no leading ^: it takes
\* a comment that trails other text on its line as well.
MatchTrailingComment(s, p, kind) ==
    LET q == p + RunLen(s, WhiteSpace, p) IN
    IF (kind = "slash" \/ AtLineStart(s, p)) /\ CommentAt(s, q, kind) THEN LineEnd(s, q) ELSE -1

\* The end of the match of /^\s*\/\/.*$/m (kind "slash") or /^\s*#(?!\!).*$/m
\* (kind "hash") at index p, or -1.  \s* is followed by a character that is no
\* white space, so it takes the whole run of white space, line breaks included.
MatchLineComment(s, p, kind) ==
    LET q == p + RunLen(s, WhiteSpace, p) IN
    IF AtLineStart(s, p) /\ CommentAt(s, q, kind) THEN LineEnd(s, q) ELSE -1

\* text.replace(<the pattern of kind>/gm, ''), scanning from index p.
RECURSIVE RemoveLineComments(_, _, _)
RemoveLineComments(s, p, kind) ==
    IF p >= Len(s) THEN <<>>
    ELSE LET e == MatchLineComment(s, p, kind) IN
         IF e # -1 THEN RemoveLineComments(s, e, kind)
         ELSE <<s[p + 1]>> \o RemoveLineComments(s, p + 1, kind)

\* text.split(/\r?\n/)
RECURSIVE SplitLines(_)
SplitLines(s) ==
    LET i == IndexOf(s, <<"\n">>) IN
    IF i = -1 THEN <<s>>
    ELSE LET line == IF i > 0 /\ s[i] = "\r" THEN Slice(s, 0, i - 1) ELSE Slice(s, 0, i)
         IN <<line>> \o SplitLines(Slice(s, i + 1, Len(s)))

\* lines.join('\n')
RECURSIVE JoinLines(_)
JoinLines(ls) ==
    IF ls = <<>> THEN <<>>
    ELSE IF Len(ls) = 1 THEN ls[1]
    ELSE ls[1] \o <<"\n">> \o JoinLines(Tail(ls))

\* A variant of KeepLine: the filter of src/src/lib/textUtils.ts:61, which also
\* keeps a blank line that follows a line that is not blank.
KeepLineAfterText(ls, i) ==
    Trim(ls[i]) # <<>> \/ (i > 1 /\ Trim(ls[i - 1]) # <<>>)

\* .filter(line => line.trim() !== '')
KeepLine(ls, i) == Trim(ls[i]) # <<>>

RECURSIVE FilterFrom(_, _)
FilterFrom(ls, i) ==
    IF i > Len(ls) THEN <<>>
    ELSE (IF KeepLine(ls, i) THEN <<ls[i]>> ELSE <<>>) \o FilterFrom(ls, i + 1)

stripComments(t) ==
    IF t = <<>> THEN <<>>
    ELSE LET noHtml == RemoveSpans(t, <<"<", "!", "-", "-">>, <<"-", "-", ">">>)
             noBlock == RemoveSpans(noHtml, <<"/", "*">>, <<"*", "/">>)
             noSlash == RemoveLineComments(noBlock, 0, "slash")
             noHash == RemoveLineComments(noSlash, 0, "hash")
             lines == SplitLines(noHash)
             stripped == [i \in 1..Len(lines) |-> TrimEnd(lines[i])]
         IN Trim(JoinLines(FilterFrom(stripped, 1)))

(***************************************************************************)
(* JSON.parse, for the texts parseModelAction hands to it.  A run of       *)
(* letters is kept as one element of the text ("action", "create_file"):   *)
(* no operation of the parser splits it.                                   *)
(***************************************************************************)
Quote == "\""

\* JSON white space
JsonWs == {" ", "\n", "\r", "\t"}

\* Characters a JSON string cannot hold unescaped.
JsonControl == {"\n", "\r", "\t"}

ParseFailed == [ok |-> FALSE, val |-> [t |-> "none", v |-> <<>>], pos |-> 0]

Parsed(t, v, pos) == [ok |-> TRUE, val |-> [t |-> t, v |-> v], pos |-> pos]

\* 0-based index of the first character that is no white space from index i.
SkipWs(s, i) == i + RunLen(s, JsonWs, i)

CharAt(s, i, c) == i < Len(s) /\ s[i + 1] = c

\* A string literal that opens at index i.
ParseString(s, i) ==
    IF ~CharAt(s, i, Quote) THEN ParseFailed
    ELSE LET n == RunLen(s, {s[k] : k \in 1..Len(s)} \ {Quote}, i + 1) IN
         IF /\ CharAt(s, i + 1 + n, Quote)
            /\ \A k \in (i + 2)..(i + 1 + n) : s[k] \notin JsonControl
         THEN Parsed("string", SubSeq(s, i + 2, i + 1 + n), i + n + 2)
         ELSE ParseFailed

\* obj with member key set to val: a later member replaces an earlier one.
SetMember(obj, key, val) ==
    [k \in DOMAIN obj \cup {key} |-> IF k = key THEN val ELSE obj[k]]

RECURSIVE ParseValue(_, _)
RECURSIVE ParseMembers(_, _, _, _)

\* The members of an object from index i, up to its closing brace.
ParseMembers(s, i, obj, first) ==
    IF first /\ CharAt(s, i, "}") THEN Parsed("object", obj, i + 1)
    ELSE LET key == ParseString(s, i)
             colon == SkipWs(s, key.pos)
         IN IF ~key.ok \/ ~CharAt(s, colon, ":") THEN ParseFailed
            ELSE LET member == ParseValue(s, SkipWs(s, colon + 1))
                     next == SkipWs(s, member.pos)
                     more == SetMember(obj, key.val.v, member.val)
                 IN IF ~member.ok THEN ParseFailed
                    ELSE IF CharAt(s, next, ",")
                         THEN ParseMembers(s, SkipWs(s, next + 1), more, FALSE)
                    ELSE IF CharAt(s, next, "}") THEN Parsed("object", more, next + 1)
                    ELSE ParseFailed

\* A JSON value that starts at index i.
ParseValue(s, i) ==
    IF CharAt(s, i, Quote) THEN ParseString(s, i)
    ELSE IF i < Len(s) /\ s[i + 1] \in Digits
         THEN Parsed("number", <<>>, i + RunLen(s, Digits, i))
    ELSE IF CharAt(s, i, "{") THEN ParseMembers(s, SkipWs(s, i + 1), <<>>, TRUE)
    ELSE ParseFailed

\* JSON.parse(s): ok is FALSE where JSON.parse throws a SyntaxError.
JsonParse(s) ==
    LET r == ParseValue(s, SkipWs(s, 0)) IN
    IF r.ok /\ SkipWs(s, r.pos) = Len(s) THEN r ELSE ParseFailed

(***************************************************************************)
(* parseModelAction (src/src/services/modelActions.ts:42-98)               *)
(***************************************************************************)
Null == [kind |-> "null"]
Threw == [kind |-> "threw"]
Returned(a) == [kind |-> "action", value |-> a]

create_file == <<"create_file">>
append_file == <<"append_file">>
insert_code == <<"insert_code">>

validActions == {create_file, append_file, insert_code}

\* A variant of IsValidAction that lets every action name through.
IsValidActionAny(actionType) == TRUE

\* validActions.includes(actionType)
IsValidAction(actionType) == actionType \in validActions

\* typeof parsedObject.<key> === 'string'
HasString(parsedObject, key) ==
    /\ parsedObject.t = "object"
    /\ key \in DOMAIN parsedObject.v
    /\ parsedObject.v[key].t = "string"

\* cleanText.indexOf('{')
startBraceOf(cleanText) == IndexOf(cleanText, <<"{">>)

\* cleanText.lastIndexOf('}')
endBraceOf(cleanText) == LastIndexOf(cleanText, <<"}">>)

\* cleanText.slice(startBrace, endBrace + 1)
jsonCandidate(cleanText) ==
    Slice(cleanText, startBraceOf(cleanText), endBraceOf(cleanText) + 1)

\* The body of the try block: Threw where JSON.parse throws.
TryParseAction(candidate) ==
    LET parsed == JsonParse(candidate)
        parsedObject == parsed.val
    IN IF ~parsed.ok THEN Threw
       ELSE IF ~HasString(parsedObject, <<"action">>) THEN Null
       ELSE LET actionType == parsedObject.v[<<"action">>].v
                base == [action |-> actionType]
                withPath == IF HasString(parsedObject, <<"path">>)
                            THEN base @@ [path |-> parsedObject.v[<<"path">>].v]
                            ELSE base
                withContent == IF HasString(parsedObject, <<"content">>)
                               THEN withPath @@ [content |-> parsedObject.v[<<"content">>].v]
                               ELSE withPath
            IN IF ~IsValidAction(actionType) THEN Null ELSE Returned(withContent)

parseModelAction(responseText) ==
    LET cleanText == Trim(responseText)
        startBrace == startBraceOf(cleanText)
        endBrace == endBraceOf(cleanText)
    IN IF cleanText = <<>> THEN Null
       ELSE IF startBrace = -1 \/ endBrace = -1 \/ endBrace <= startBrace THEN Null
       ELSE LET tried == TryParseAction(jsonCandidate(cleanText))
            IN IF tried = Threw THEN Null ELSE tried

(***************************************************************************)
(* Paths: sanitizeFilePath, the split into segments, vscode.Uri.joinPath   *)
(* and isPathWithinWorkspace (src/src/services/modelActions.ts:185-255).   *)
(***************************************************************************)
Separators == {"/", "\\"}

\* path.replace(/^([/\\])+/, '')
sanitizeFilePath(path) == SubSeq(path, RunLen(path, Separators, 0) + 1, Len(path))

\* sanitizedPath.split(/[\/\\]+/).filter(Boolean)
RECURSIVE SplitSegments(_)
SplitSegments(s) ==
    LET from == RunLen(s, Separators, 0)
        n == RunLen(s, {s[k] : k \in 1..Len(s)} \ Separators, from)
    IN IF from = Len(s) THEN <<>>
       ELSE <<SubSeq(s, from + 1, from + n)>> \o SplitSegments(SubSeq(s, from + n + 1, Len(s)))

pathSegmentsOf(path) == SplitSegments(sanitizeFilePath(path))

\* s.split(c)
RECURSIVE SplitAt(_, _)
SplitAt(s, c) ==
    LET i == IndexOf(s, <<c>>) IN
    IF i = -1 THEN <<s>> ELSE <<Slice(s, 0, i)>> \o SplitAt(Slice(s, i + 1, Len(s)), c)

\* The segments of an absolute path with "." and "" dropped and ".." taking
\* back the segment before it; ".." at the root is dropped.
RECURSIVE NormalizeSegments(_, _)
NormalizeSegments(parts, acc) ==
    IF parts = <<>> THEN acc
    ELSE LET part == Head(parts) IN
         IF part = <<>> \/ part = <<".">> THEN NormalizeSegments(Tail(parts), acc)
         ELSE IF part = <<".", ".">>
              THEN NormalizeSegments(Tail(parts),
                                     IF acc = <<>> THEN acc ELSE SubSeq(acc, 1, Len(acc) - 1))
         ELSE NormalizeSegments(Tail(parts), Append(acc, part))

RECURSIVE JoinWith(_, _)
JoinWith(parts, c) ==
    IF parts = <<>> THEN <<>>
    ELSE IF Len(parts) = 1 THEN parts[1]
    ELSE parts[1] \o <<c>> \o JoinWith(Tail(parts), c)

\* posix.normalize(p) for an absolute path p
posixNormalize(p) ==
    LET kept == NormalizeSegments(SplitAt(p, "/"), <<>>)
        trailingSeparator == EndsWith(p, <<"/">>)
    IN IF kept = <<>> THEN <<"/">>
       ELSE <<"/">> \o JoinWith(kept, "/") \o (IF trailingSeparator THEN <<"/">> ELSE <<>>)

\* vscode.Uri.joinPath(uri, ...segments).path: posix.join(uri.path, ...segments)
joinPath(uriPath, segments) ==
    posixNormalize(JoinWith(<<uriPath>> \o segments, "/"))

\* A variant of isPathWithinWorkspace that compares with the root path itself.
isPathWithinWorkspaceNoSlash(filePath, workspaceRoot) == StartsWith(filePath, workspaceRoot)

isPathWithinWorkspace(filePath, workspaceRoot) ==
    LET workspaceRootPath == IF EndsWith(workspaceRoot, <<"/">>)
                             THEN workspaceRoot
                             ELSE workspaceRoot \o <<"/">>
    IN StartsWith(filePath, workspaceRootPath)

(***************************************************************************)
(* Values of the executor's state while a pure function is under check.    *)
(***************************************************************************)
NoAction == [action |-> "none"]
NoMessage == [request |-> 0, type |-> "none", text |-> <<>>, handler |-> "none"]

\* The page as its script leaves it when it has loaded
\* (webviewProvider.ts:542-600, 754-757).
WebviewReady ==
    [promptInput |-> <<>>, statusMessage |-> "ready", hidden |-> TRUE,
     responseContent |-> <<>>, lastResponse |-> <<>>, activityLog |-> <<>>,
     modelSelect |-> "llama3.2:latest", sent |-> 0, received |-> 0]

\* DEFAULT_LLM_CONFIG as it is exported (llmService.ts:49-55).
InitialLlmConfig ==
    [baseUrl |-> "http://72.60.98.171:11434", modelName |-> "llama3.2:latest",
     temperature |-> "0.7", maxTokens |-> 100, stream |-> FALSE]

\* No webview message has been sent.
RequestIdle ==
    /\ inbox = <<>>
    /\ message = NoMessage
    /\ aiResponse = <<>>
    /\ calls = <<>>
    /\ posted = <<>>
    /\ parked = {}
    /\ webview = WebviewReady
    /\ DEFAULT_LLM_CONFIG = InitialLlmConfig

NoEditor == [present |-> FALSE, selections |-> 0]

ExecIdle ==
    /\ workspaceFolders = <<>>
    /\ action = NoAction
    /\ files = <<>>
    /\ fsCalls = <<>>
    /\ shown = <<>>
    /\ opened = <<>>
    /\ editor = NoEditor
    /\ inserted = <<>>
    /\ existingContent = <<>>

(***************************************************************************)
(* executeModelAction and its handlers                                     *)
(* (src/src/services/modelActions.ts:110-311).  Every await is a step.     *)
(***************************************************************************)
\* A UTF-16 code unit that is half of a pair, on its own, and U+FFFD.
LoneSurrogate == "SURROGATE"
Replacement == "U+FFFD"
ByteOrderMark == "U+FEFF"

\* new TextEncoder().encode(content): a lone surrogate is encoded as U+FFFD.
Encode(content) ==
    [i \in 1..Len(content) |-> IF content[i] = LoneSurrogate THEN Replacement ELSE content[i]]

\* new TextDecoder().decode(data): a leading byte order mark is dropped.
Decode(data) ==
    IF data # <<>> /\ data[1] = ByteOrderMark THEN Tail(data) ELSE data

\* action.path is present and not empty: !action.path is false
HasPath(a) == "path" \in DOMAIN a /\ a.path # <<>>

\* action.content ?? ''
ContentOf(a) == IF "content" \in DOMAIN a THEN a.content ELSE <<>>

workspaceRoot == workspaceFolders[1]

pathSegments == pathSegmentsOf(action.path)

targetFileUri == joinPath(workspaceRoot, pathSegments)

parentDirUri == joinPath(workspaceRoot, SubSeq(pathSegments, 1, Len(pathSegments) - 1))

\* A variant of FileOperationOutcome that looks for the path before it looks
\* for a workspace folder.
FileOperationOutcomePathFirst ==
    IF ~HasPath(action) THEN "noPath"
    ELSE IF Len(workspaceFolders) = 0 THEN "noWorkspace"
    ELSE IF ~isPathWithinWorkspace(targetFileUri, workspaceRoot) THEN "refused"
    ELSE "accepted"

\* What the checks of handleFileOperation decide (lines 168-197).
FileOperationOutcome ==
    IF Len(workspaceFolders) = 0 THEN "noWorkspace"
    ELSE IF ~HasPath(action) THEN "noPath"
    ELSE IF ~isPathWithinWorkspace(targetFileUri, workspaceRoot) THEN "refused"
    ELSE "accepted"

\* A variant of AfterChecks that creates the parent directory before it looks
\* at the outcome of the confinement check.
AfterChecksDirectoryFirst(outcome, segments) ==
    IF outcome \in {"accepted", "refused"}
    THEN (IF Len(segments) > 1 THEN "mkdir" ELSE IF outcome = "accepted" THEN "op" ELSE "done")
    ELSE "done"

\* A variant of AfterChecks that never creates the parent directory.
AfterChecksNoDirectory(outcome, segments) ==
    IF outcome = "accepted" THEN "op" ELSE "done"

\* Where handleFileOperation goes after its checks (lines 170-204).
AfterChecks(outcome, segments) ==
    IF outcome = "accepted"
    THEN (IF Len(segments) > 1 THEN "mkdir" ELSE "op")
    ELSE "done"

Message(level, msg) == [level |-> level, msg |-> msg]

Call(op, path) == [op |-> op, path |-> path]

\* A variant of WriteTo that leaves a file that is already there as it is.
WriteToIfAbsent(fs, path, data) ==
    [q \in DOMAIN fs \cup {path} |-> IF q \in DOMAIN fs THEN fs[q] ELSE data]

\* files with the file at path holding data
WriteTo(fs, path, data) ==
    [q \in DOMAIN fs \cup {path} |-> IF q = path THEN data ELSE fs[q]]

\* A variant of textToInsert that inserts the text as it is.
textAsGiven(t) == t

\* text.endsWith('\n') ? text : text + '\n' (textProcessor.ts:159)
textToInsert(t) == IF EndsWith(t, <<"\n">>) THEN t ELSE t \o <<"\n">>

\* The editBuilder.insert calls of insertTextAtCursors: one at the active
\* position of each selection (textProcessor.ts:157-169).
insertTextAtCursors(ed, t) ==
    [i \in 1..ed.selections |-> [at |-> i, text |-> textToInsert(t)]]

\* A variant of InsertionGuard that looks at the content before the editor.
InsertionGuardContentFirst(ed, cleanCode) ==
    IF cleanCode = <<>> THEN "noCode" ELSE IF ~ed.present THEN "noEditor" ELSE "insert"

\* The two early returns of handleCodeInsertion (lines 135-150) and of
\* insertCodeResponse (webviewProvider.ts:249-263), in their order.
InsertionGuard(ed, cleanCode) ==
    IF ~ed.present THEN "noEditor" ELSE IF cleanCode = <<>> THEN "noCode" ELSE "insert"

\* handleCodeInsertion up to its await of insertTextAtCursors (lines 133-152),
\* with the edit of insertTextAtCursors (textProcessor.ts:157-169).
HandleCodeInsertion ==
    /\ pc = "start"
    /\ action.action = insert_code
    /\ LET cleanCode == stripComments(unwrapCodeFence(ContentOf(action)))
           guard == InsertionGuard(editor, cleanCode)
       IN
       IF guard = "noEditor"
       THEN /\ shown' = Append(shown, Message("information", "openFile"))
            /\ pc' = "done"
            /\ UNCHANGED inserted
       ELSE IF guard = "noCode"
       THEN /\ shown' = Append(shown, Message("warning", "noCode"))
            /\ pc' = "done"
            /\ UNCHANGED inserted
       ELSE /\ inserted' = inserted \o insertTextAtCursors(editor, cleanCode)
            /\ pc' = "inserted"
            /\ UNCHANGED shown
    /\ UNCHANGED <<text, result, workspaceFolders, action, files, fsCalls, opened, editor,
                   existingContent,
                   requestVars>>

\* handleCodeInsertion after the edit (lines 153-155).
InsertionReported ==
    /\ pc = "inserted"
    /\ shown' = Append(shown, Message("information", "inserted"))
    /\ pc' = "done"
    /\ UNCHANGED <<text, result, workspaceFolders, action, files, fsCalls, opened, editor,
                   inserted, existingContent,
                   requestVars>>

\* handleFileOperation up to its first await (lines 167-204).
HandleFileOperation ==
    /\ pc = "start"
    /\ action.action # insert_code
    /\ LET outcome == FileOperationOutcome IN
       /\ shown' = IF outcome = "noWorkspace"
                        THEN Append(shown, Message("warning", "noWorkspace"))
                   ELSE IF outcome = "noPath"
                        THEN Append(shown, Message("warning", "noPath"))
                   ELSE IF outcome = "refused"
                        THEN Append(shown, Message("error", "refused"))
                   ELSE shown
       /\ pc' = AfterChecks(outcome, IF outcome \in {"accepted", "refused"}
                                     THEN pathSegments ELSE <<>>)
    /\ UNCHANGED <<text, result, workspaceFolders, action, files, fsCalls, opened, editor,
                   inserted, existingContent,
                   requestVars>>

\* await vscode.workspace.fs.createDirectory(parentDirUri) (line 203)
CreateDirectory ==
    /\ pc = "mkdir"
    /\ fsCalls' = Append(fsCalls, Call("createDirectory", parentDirUri))
    /\ pc' = "op"
    /\ UNCHANGED <<text, result, workspaceFolders, action, files, shown, opened, editor,
                   inserted, existingContent,
                   requestVars>>

\* createDirectory rejects: the exception leaves executeModelAction.
CreateDirectoryFails ==
    /\ pc = "mkdir"
    /\ fsCalls' = Append(fsCalls, Call("createDirectory", parentDirUri))
    /\ pc' = "threw"
    /\ UNCHANGED <<text, result, workspaceFolders, action, files, shown, opened, editor,
                   inserted, existingContent,
                   requestVars>>

\* createNewFile (lines 267-274)
CreateNewFile ==
    /\ pc = "op"
    /\ action.action = create_file
    /\ fsCalls' = Append(fsCalls, Call("writeFile", targetFileUri))
    /\ files' = WriteTo(files, targetFileUri, Encode(ContentOf(action)))
    /\ shown' = Append(shown, Message("information", "created"))
    /\ pc' = "open"
    /\ UNCHANGED <<text, result, workspaceFolders, action, opened, editor, inserted,
                   existingContent,
                   requestVars>>

\* appendToFile up to its write (lines 288-301): a file that is not there makes
\* readFile throw, and the catch leaves existingContent empty.
AppendRead ==
    /\ pc = "op"
    /\ action.action = append_file
    /\ fsCalls' = Append(fsCalls, Call("readFile", targetFileUri))
    /\ existingContent' = IF targetFileUri \in DOMAIN files
                           THEN Decode(files[targetFileUri])
                           ELSE <<>>
    /\ pc' = "write"
    /\ UNCHANGED <<text, result, workspaceFolders, action, files, shown, opened, editor,
                   inserted,
                   requestVars>>

\* A variant of AppendReadFails in which the exception of readFile leaves
\* appendToFile.
AppendReadFailsThrows ==
    /\ pc = "op"
    /\ action.action = append_file
    /\ targetFileUri \in DOMAIN files
    /\ fsCalls' = Append(fsCalls, Call("readFile", targetFileUri))
    /\ pc' = "threw"
    /\ UNCHANGED <<text, result, workspaceFolders, action, files, shown, opened, editor,
                   inserted, existingContent,
                   requestVars>>

\* readFile throws although the file is there: the same catch.
AppendReadFails ==
    /\ pc = "op"
    /\ action.action = append_file
    /\ targetFileUri \in DOMAIN files
    /\ fsCalls' = Append(fsCalls, Call("readFile", targetFileUri))
    /\ existingContent' = <<>>
    /\ pc' = "write"
    /\ UNCHANGED <<text, result, workspaceFolders, action, files, shown, opened, editor,
                   inserted,
                   requestVars>>

\* A variant of AppendWrite that appends to what the file holds at the time
\* of the write.
AppendWriteToCurrent ==
    /\ pc = "write"
    /\ LET current == IF targetFileUri \in DOMAIN files
                      THEN Decode(files[targetFileUri]) ELSE <<>>
           needsNewline == current # <<>> /\ ~EndsWith(current, <<"\n">>)
           combinedContent == current \o (IF needsNewline THEN <<"\n">> ELSE <<>>)
                                  \o ContentOf(action)
       IN files' = WriteTo(files, targetFileUri, Encode(combinedContent))
    /\ fsCalls' = Append(fsCalls, Call("writeFile", targetFileUri))
    /\ shown' = Append(shown, Message("information", "appended"))
    /\ pc' = "open"
    /\ UNCHANGED <<text, result, workspaceFolders, action, opened, editor, inserted,
                   existingContent, requestVars>>

\* appendToFile from its write on (lines 300-310)
AppendWrite ==
    /\ pc = "write"
    /\ LET needsNewline == existingContent # <<>> /\ ~EndsWith(existingContent, <<"\n">>)
           combinedContent == existingContent \o (IF needsNewline THEN <<"\n">> ELSE <<>>)
                                  \o ContentOf(action)
       IN files' = WriteTo(files, targetFileUri, Encode(combinedContent))
    /\ fsCalls' = Append(fsCalls, Call("writeFile", targetFileUri))
    /\ shown' = Append(shown, Message("information", "appended"))
    /\ pc' = "open"
    /\ UNCHANGED <<text, result, workspaceFolders, action, opened, editor, inserted,
                   existingContent,
                   requestVars>>

\* writeFile rejects: the exception leaves executeModelAction.
WriteFileFails ==
    /\ \/ pc = "op" /\ action.action = create_file
       \/ pc = "write"
    /\ fsCalls' = Append(fsCalls, Call("writeFile", targetFileUri))
    /\ pc' = "threw"
    /\ UNCHANGED <<text, result, workspaceFolders, action, files, shown, opened, editor,
                   inserted, existingContent,
                   requestVars>>

\* openTextDocument and showTextDocument (lines 214-216)
OpenDocument ==
    /\ pc = "open"
    /\ opened' = Append(opened, targetFileUri)
    /\ pc' = "done"
    /\ UNCHANGED <<text, result, workspaceFolders, action, files, fsCalls, shown, editor,
                   inserted, existingContent,
                   requestVars>>

\* A variant of OpenDocumentFails in which the exception leaves
\* executeModelAction.
OpenDocumentFailsThrows ==
    /\ pc = "open"
    /\ pc' = "threw"
    /\ UNCHANGED <<text, result, workspaceFolders, action, files, fsCalls, shown, opened,
                   editor, inserted, existingContent,
                   requestVars>>

\* One of them throws: the catch logs it (lines 217-220).
OpenDocumentFails ==
    /\ pc = "open"
    /\ pc' = "done"
    /\ UNCHANGED <<text, result, workspaceFolders, action, files, fsCalls, shown, opened,
                   editor, inserted, existingContent,
                   requestVars>>

(***************************************************************************)
(* Spec: one call of executeModelAction.  The first family of initial      *)
(* states ranges over the action's path, the second over the workspace,    *)
(* the files, the editor and the action's content.                         *)
(***************************************************************************)
PathChars == {"/", "\\", ".", "w"}

RootW == <<"/", "w">>
RootWW == <<"/", "w", "w">>

NoFiles == <<>>
OneFile == WriteTo(NoFiles, <<"/", "w", "/", "w">>, <<"e">>)
OtherPath == <<"/", "w", "/", "o">>
LineFile == WriteTo(WriteTo(NoFiles, <<"/", "w", "/", "w">>, <<"e", "\n">>), OtherPath, <<"o">>)
BomFile == WriteTo(NoFiles, <<"/", "w", "/", "w">>, <<ByteOrderMark, "e">>)
SomeFiles == {NoFiles, OneFile, LineFile, BomFile}

FileActionKinds == {create_file, append_file}

PathActions ==
    {[action |-> k, path |-> p, content |-> <<"x">>] :
        k \in FileActionKinds, p \in SeqsUpTo(PathChars, MaxPath)}

SomePaths ==
    {<<>>, <<"w">>, <<"w", "/", "w">>, <<".", ".", "/", "w">>, <<"/", "w", "\\", "w">>}

SomeContents == {<<"x">>, <<"x", "\n">>, <<"/", "/", "x">>, <<LoneSurrogate>>}

OtherActions ==
    {[action |-> k, path |-> p, content |-> c] :
        k \in FileActionKinds, p \in SomePaths, c \in SomeContents}
        \cup {[action |-> k, path |-> p] : k \in FileActionKinds, p \in SomePaths}
        \cup {[action |-> k, content |-> c] : k \in FileActionKinds, c \in SomeContents}
        \cup {[action |-> k] : k \in FileActionKinds \cup {insert_code}}
        \cup {[action |-> insert_code, content |-> c] : c \in SomeContents}

Editors ==
    {NoEditor, [present |-> TRUE, selections |-> 1], [present |-> TRUE, selections |-> 2]}

Init ==
    /\ pc = "start"
    /\ text = <<>>
    /\ result = Null
    /\ fsCalls = <<>>
    /\ shown = <<>>
    /\ opened = <<>>
    /\ inserted = <<>>
    /\ existingContent = <<>>
    /\ RequestIdle
    /\ \/ /\ action \in PathActions
          /\ workspaceFolders = <<RootW>>
          /\ files = NoFiles
          /\ editor = NoEditor
       \/ /\ action \in OtherActions
          /\ workspaceFolders \in {<<>>, <<RootW>>, <<RootWW, RootW>>}
          /\ files \in SomeFiles
          /\ editor \in Editors

Next ==
    \/ HandleCodeInsertion
    \/ InsertionReported
    \/ HandleFileOperation
    \/ CreateDirectory
    \/ CreateDirectoryFails
    \/ CreateNewFile
    \/ AppendRead
    \/ AppendReadFails
    \/ AppendWrite
    \/ WriteFileFails
    \/ OpenDocument
    \/ OpenDocumentFails

Spec == Init /\ [][Next]_vars

\* Path p, once its "." and ".." segments are resolved, begins with the root
\* path followed by exactly one '/'.
UnderRoot(p) ==
    /\ StartsWith(posixNormalize(p), workspaceRoot \o <<"/">>)
    /\ ~StartsWith(posixNormalize(p), workspaceRoot \o <<"/", "/">>)

\* C1 as stated: every writeFile and every createDirectory call targets a path
\* that begins with the root path followed by one '/'.
C1_EveryCallUnderRoot ==
    \A i \in 1..Len(fsCalls) :
        fsCalls[i].op \in {"writeFile", "createDirectory"} => UnderRoot(fsCalls[i].path)

\* C1 (amended): every writeFile call targets a path that begins with the root
\* path followed by one '/', and every createDirectory call targets such a path
\* or the root itself; nothing outside the first workspace folder is touched.
C1_PathConfinement ==
    \A i \in 1..Len(fsCalls) :
        /\ fsCalls[i].op = "writeFile" => UnderRoot(fsCalls[i].path)
        /\ fsCalls[i].op = "createDirectory" =>
              UnderRoot(fsCalls[i].path) \/ posixNormalize(fsCalls[i].path) = workspaceRoot

\* A path that climbs out of a directory with ".." and stays in the workspace
\* was accepted, and its file written under the root.
C1_Witness ==
    /\ pc = "done"
    /\ HasPath(action)
    /\ action.path = <<"w", "/", ".", ".", "/", "w">>
    /\ \E i \in 1..Len(fsCalls) : fsCalls[i] = Call("writeFile", <<"/", "w", "/", "w">>)

\* The action is a file action that is to be refused: no workspace folder, no
\* path, or a target that is not under the root.
ToBeRefused ==
    /\ action.action \in FileActionKinds
    /\ \/ Len(workspaceFolders) = 0
       \/ ~HasPath(action)
       \/ ~UnderRoot(targetFileUri)

\* C2: a refused create_file or append_file makes no createDirectory, readFile
\* or writeFile call, opens no document and leaves the files as they are.
C2_RefusalNoIO ==
    /\ [](ToBeRefused => (fsCalls = <<>> /\ opened = <<>>))
    /\ [][ToBeRefused => files' = files]_vars

\* A path that leaves the workspace was refused with the error message.
C2_Witness ==
    /\ pc = "done"
    /\ ToBeRefused
    /\ HasPath(action)
    /\ action.path = <<".", ".", "/", "w", "w">>
    /\ shown = <<Message("error", "refused")>>

\* The content of the file at path p, empty when there is no such file.
Holds(fs, p) == IF p \in DOMAIN fs THEN fs[p] ELSE <<>>

\* The step in which appendToFile's writeFile succeeds.
AppendWritten == pc = "write" /\ pc' = "open"

\* The step in which createNewFile's writeFile succeeds.
CreateWritten == pc = "op" /\ action.action = create_file /\ pc' = "open"

\* C12: after a successful append_file the file holds E + sep + C, where E is
\* what it held before (nothing if it was not there), C is the appended
\* content and sep is one newline exactly when E is not empty and does not
\* end with a newline.
C12_AppendConcatenates ==
    [][AppendWritten =>
          LET E == Holds(files, targetFileUri)
              C == ContentOf(action)
              sep == IF E # <<>> /\ ~EndsWith(E, <<"\n">>) THEN <<"\n">> ELSE <<>>
          IN Holds(files', targetFileUri) = E \o sep \o C]_vars

\* C14 as stated: after a successful create_file the file holds exactly C.
C14_HoldsExactlyContent ==
    [][CreateWritten => Holds(files', targetFileUri) = ContentOf(action)]_vars

\* C14 (amended): after a successful create_file the file holds the UTF-8
\* encoding of C, whatever it held before, and no other file has changed.
C14_CreateOverwrites ==
    [][CreateWritten =>
          /\ targetFileUri \in DOMAIN files'
          /\ files'[targetFileUri] = Encode(ContentOf(action))
          /\ \A q \in DOMAIN files \cup DOMAIN files' :
                 q # targetFileUri => (q \in DOMAIN files /\ q \in DOMAIN files'
                                         /\ files'[q] = files[q])]_vars

\* create_file has replaced the content "e\n" of a file that was there.
C14_Witness ==
    /\ pc = "done"
    /\ action.action = create_file
    /\ files = WriteTo(LineFile, <<"/", "w", "/", "w">>, <<"x">>)

\* stripComments(unwrapCodeFence(content)): the cleanup of a plain response.
Cleaned(content) == stripComments(unwrapCodeFence(content))

\* C15: the content an executed action writes or inserts is the action's
\* content cleaned as a plain response is: create_file writes it, append_file
\* appends it, insert_code inserts it.
C15_ContentCleaned ==
    [][/\ CreateWritten =>
             Holds(files', targetFileUri) = Encode(Cleaned(ContentOf(action)))
       /\ AppendWritten =>
             EndsWith(Holds(files', targetFileUri), Encode(Cleaned(ContentOf(action))))
       /\ (pc = "start" /\ pc' = "inserted") =>
             \A i \in (Len(inserted) + 1)..Len(inserted') :
                 inserted'[i].text = textToInsert(Cleaned(ContentOf(action)))]_vars

\* The last call made on the file system is a writeFile that succeeded.
WrittenLast ==
    /\ fsCalls # <<>>
    /\ fsCalls[Len(fsCalls)] = Call("writeFile", targetFileUri)

\* C22: when opening or showing the written file fails after the write of a
\* create_file or append_file has succeeded, executeModelAction still ends
\* normally, no exception reaching its caller, and the files are left as the
\* write left them.
C22_OpenFailureIsHarmless ==
    [][pc = "open" => (pc' = "done" /\ files' = files /\ fsCalls' = fsCalls)]_vars

\* A file was created, no document was opened for it, and executeModelAction
\* has ended normally with the file holding the content.
C22_Witness ==
    /\ pc = "done"
    /\ action.action = create_file
    /\ WrittenLast
    /\ opened = <<>>
    /\ files = WriteTo(NoFiles, <<"/", "w", "/", "w">>, <<"x">>)

\* C25: the checks of a create_file or append_file run in the order workspace
\* open, path present, target confined, and the first that fails alone decides
\* the outcome: without a workspace folder the only message is the
\* no-workspace warning, whatever the path; with one and no path it is the
\* missing-path warning; with a path that leaves the root it is the refusal.
C25_CheckPrecedence ==
    [][(pc = "start" /\ action.action \in FileActionKinds) =>
          IF Len(workspaceFolders) = 0
          THEN shown' = Append(shown, Message("warning", "noWorkspace")) /\ pc' = "done"
          ELSE IF ~HasPath(action)
          THEN shown' = Append(shown, Message("warning", "noPath")) /\ pc' = "done"
          ELSE IF ~UnderRoot(targetFileUri)
          THEN shown' = Append(shown, Message("error", "refused")) /\ pc' = "done"
          ELSE shown' = shown /\ pc' \in {"mkdir", "op"}]_vars

\* With no workspace folder and no path, the no-workspace warning alone was
\* shown.
C25_Witness ==
    /\ pc = "done"
    /\ action.action \in FileActionKinds
    /\ Len(workspaceFolders) = 0
    /\ ~HasPath(action)
    /\ shown = <<Message("warning", "noWorkspace")>>

\* The file action has passed the three checks of handleFileOperation.
Accepted ==
    /\ action.action \in FileActionKinds
    /\ Len(workspaceFolders) > 0
    /\ HasPath(action)
    /\ UnderRoot(targetFileUri)

\* The root joined with all the segments of the sanitised path but the last.
ParentDirectory ==
    joinPath(workspaceRoot, SubSeq(pathSegments, 1, Len(pathSegments) - 1))

\* C26: for an accepted file action whose sanitised path has more than one
\* segment, the first call on the file system is createDirectory on the
\* parent directory, made before any readFile or writeFile, and when it fails
\* nothing else is called; for a path of one segment createDirectory is never
\* called.
C26_DirectoryBeforeWrite ==
    (Accepted /\ pc # "start") =>
        IF Len(pathSegments) > 1
        THEN /\ pc # "mkdir" =>
                  (fsCalls # <<>> /\ fsCalls[1] = Call("createDirectory", ParentDirectory))
             /\ \A i \in 2..Len(fsCalls) : fsCalls[i].op # "createDirectory"
             /\ (pc = "threw" /\ fsCalls[Len(fsCalls)].op = "createDirectory") =>
                  Len(fsCalls) = 1
        ELSE \A i \in 1..Len(fsCalls) : fsCalls[i].op # "createDirectory"

\* A file was appended to in a directory below the root: the directory was
\* created first, then the file was read and written.
C26_Witness ==
    /\ pc = "done"
    /\ Accepted
    /\ action.path = <<"w", "/", "w">>
    /\ fsCalls = <<Call("createDirectory", <<"/", "w", "/", "w">>),
                   Call("readFile", <<"/", "w", "/", "w", "/", "w">>),
                   Call("writeFile", <<"/", "w", "/", "w", "/", "w">>)>>

\* The step in which readFile, called on a file by appendToFile, returns or
\* throws.
AppendReading == pc = "op" /\ action.action = append_file /\ fsCalls' # fsCalls

BodyChars == {Backtick, "\n", " ", "a", "("}
FenceTagChars == {"a", "+"}

Bodies == SeqsUpTo(BodyChars, MaxBody)
Tags == SeqsUpTo(FenceTagChars, MaxTag)

\* The opening marker immediately followed by the tag, a newline, the body, a
\* newline and the closing marker.
Fenced(T, B) == fenceMarker \o T \o <<"\n">> \o B \o <<"\n">> \o fenceMarker

FenceInputs ==
    {Fenced(T, B) : T \in Tags, B \in Bodies}
        \cup Bodies
        \cup {fenceMarker \o B : B \in Bodies}

InitFence ==
    /\ pc = "call"
    /\ text \in FenceInputs
    /\ result = <<>>
    /\ ExecIdle
    /\ RequestIdle

UnwrapCodeFenceCall ==
    /\ pc = "call"
    /\ result' = unwrapCodeFence(text)
    /\ pc' = "done"
    /\ UNCHANGED <<text, execVars, requestVars>>

NextFence == UnwrapCodeFenceCall

SpecFence == InitFence /\ [][NextFence]_vars

\* text is a marker line, a body and a closing marker line, with no tag.
BareFence(t) ==
    /\ Len(t) >= 8
    /\ StartsWith(t, fenceMarker \o <<"\n">>)
    /\ EndsWith(t, <<"\n">> \o fenceMarker)

BareBody(t) == SubSeq(t, 5, Len(t) - 4)

\* C5: unwrapCodeFence of a fence without a language tag (a marker line, a
\* body B, a closing marker line) is B trimmed, so that no line of B is lost.
C5_BareFenceReturnsBody ==
    (pc = "done" /\ BareFence(text)) => result = Trim(BareBody(text))

\* The claim's tag alphabet: alphanumerics, '+', '#', '.', '-'.
ClaimTagChars == TagChars \ {"_"}

\* 0-based index of the first newline of t.
FirstNewline(t) == IndexOf(t, <<"\n">>)

\* text is the marker, a non-empty tag, a newline, a body, a newline, the marker.
TaggedFence(t) ==
    /\ StartsWith(t, fenceMarker)
    /\ FirstNewline(t) > 3
    /\ \A k \in 4..FirstNewline(t) : t[k] \in ClaimTagChars
    /\ Len(t) >= FirstNewline(t) + 5
    /\ EndsWith(t, <<"\n">> \o fenceMarker)

TaggedBody(t) == SubSeq(t, FirstNewline(t) + 2, Len(t) - 4)

\* C6: unwrapCodeFence of a fence with a non-empty language tag T and a body B
\* is B trimmed: the tag line is dropped and nothing else of the body is.
C6_TaggedFenceDropsOnlyTagLine ==
    (pc = "done" /\ TaggedFence(text)) => result = Trim(TaggedBody(text))

\* A tagged fence whose body's own first line looks like a tag was unwrapped,
\* and that line is still there.
C6_Witness ==
    /\ pc = "done"
    /\ TaggedFence(text)
    /\ TaggedBody(text) = <<"a", "\n", "(">>
    /\ result = <<"a", "\n", "(">>

(***************************************************************************)
(* SpecStrip: stripComments applied to short texts over the characters     *)
(* the patterns look at, to nests of block-comment delimiters, and to      *)
(* texts made of whole delimiters.                                         *)
(***************************************************************************)
StripChars == {"/", "#", "!", "\n", "\r", " ", "a"}
NestChars == {"/", "*"}

HtmlOpen == <<"<", "!", "-", "-">>
HtmlClose == <<"-", "-", ">">>
BlockOpen == <<"/", "*">>
BlockClose == <<"*", "/">>

Pieces == {HtmlOpen, HtmlClose, BlockOpen, BlockClose, <<"#">>, <<"!">>, <<"a">>, <<"\n">>}

RECURSIVE Flatten(_)
Flatten(ps) == IF ps = <<>> THEN <<>> ELSE Head(ps) \o Flatten(Tail(ps))

\* Lines of code that hold a quoted string.
LeadChars == {" ", "a", "/", "\n"}
QuotedChars == {"/", "a", " ", "\n"}

QuotedInputs ==
    {lead \o <<Quote>> \o q \o <<Quote>> :
        lead \in SeqsUpTo(LeadChars, MaxLead), q \in SeqsUpTo(QuotedChars, MaxQuoted)}

StripInputs ==
    SeqsUpTo(StripChars, MaxChars)
        \cup SeqsUpTo(NestChars, MaxNest)
        \cup {Flatten(ps) : ps \in SeqsUpTo(Pieces, MaxPieces)}
        \cup QuotedInputs

InitStrip ==
    /\ pc = "call"
    /\ text \in StripInputs
    /\ result = <<>>
    /\ ExecIdle
    /\ RequestIdle

StripCommentsCall ==
    /\ pc = "call"
    /\ result' = stripComments(text)
    /\ pc' = "done"
    /\ UNCHANGED <<text, execVars, requestVars>>

NextStrip == StripCommentsCall

SpecStrip == InitStrip /\ [][NextStrip]_vars

\* C7: stripComments is idempotent: applied to its own output it returns it.
C7_Idempotent ==
    pc = "done" => stripComments(result) = result

\* The lines of a text: the parts between its newlines.
RECURSIVE LinesOf(_)
LinesOf(s) ==
    LET i == IndexOf(s, <<"\n">>) IN
    IF i = -1 THEN <<s>> ELSE <<Slice(s, 0, i)>> \o LinesOf(Slice(s, i + 1, Len(s)))

\* C9: the output of stripComments has no empty or whitespace-only line, no
\* line with trailing whitespace and no leading or trailing whitespace; its
\* lines are separated by single newlines.
C9_NoBlankLines ==
    (pc = "done" /\ result # <<>>) =>
        /\ result[1] \notin WhiteSpace
        /\ result[Len(result)] \notin WhiteSpace
        /\ \A i \in 1..Len(LinesOf(result)) :
              LET l == LinesOf(result)[i] IN
              /\ l # <<>>
              /\ \E k \in 1..Len(l) : l[k] \notin WhiteSpace
              /\ l[Len(l)] \notin WhiteSpace

\* A text with a run of blank lines between two lines of code was stripped to
\* the two lines of code.
C9_Witness ==
    /\ pc = "done"
    /\ text = <<"a", "\n", "\n", "a">>
    /\ result = <<"a", "\n", "a">>

\* The lines of a text as the patterns see them: the parts between its line
\* terminators.
RECURSIVE TermLinesOf(_)
TermLinesOf(s) ==
    IF \E i \in 1..Len(s) : s[i] \in LineTerminators
    THEN LET i == CHOOSE i \in 1..Len(s) :
                    s[i] \in LineTerminators /\ \A k \in 1..(i - 1) : s[k] \notin LineTerminators
         IN <<SubSeq(s, 1, i - 1)>> \o TermLinesOf(SubSeq(s, i + 1, Len(s)))
    ELSE <<s>>

\* The trimmed content of line l starts with '#' not followed by '!'.
IsHashComment(l) == StartsWith(Trim(l), <<"#">>) /\ ~StartsWith(Trim(l), <<"#", "!">>)

\* The trimmed content of line l starts with "//".
IsSlashComment(l) == StartsWith(Trim(l), <<"/", "/">>)

IsShebang(l) == StartsWith(l, <<"#", "!">>)

\* l is one of the lines ls.
IsLineOf(l, ls) == \E j \in 1..Len(ls) : ls[j] = l

\* No line of the output is a hash comment.
NoHashCommentLeft ==
    \A i \in 1..Len(TermLinesOf(result)) : ~IsHashComment(TermLinesOf(result)[i])

WithoutSpans(t) == RemoveSpans(RemoveSpans(t, HtmlOpen, HtmlClose), BlockOpen, BlockClose)

\* The lines ls, each without its trailing whitespace.
TrimmedLines(ls) == [j \in 1..Len(ls) |-> TrimEnd(ls[j])]

NoDelims(t) == IndexOf(t, HtmlOpen) = -1 /\ IndexOf(t, BlockOpen) = -1

\* Line l is code: not blank, no "//" comment and no hash comment.
IsCode(l) == Trim(l) # <<>> /\ ~IsSlashComment(l) /\ ~IsHashComment(l)

\* The code lines of t in their order, each without trailing whitespace, joined
\* by newlines and trimmed as a whole.
CodeOf(t) ==
    LET kept == SelectSeq(LinesOf(t), IsCode)
    IN Trim(JoinLines([i \in 1..Len(kept) |-> TrimEnd(kept[i])]))

NoLoneCR(t) == \A i \in 1..Len(t) : t[i] = "\r" => (i < Len(t) /\ t[i + 1] = "\n")

QuotedSlashAt(l, j) ==
    /\ OccursAt(l, <<"/", "/">>, j)
    /\ Cardinality({k \in 1..j : l[k] = Quote}) % 2 = 1

HasQuotedSlash(l) == \E j \in 0..Len(l) : QuotedSlashAt(l, j)

ContentsOf(ls) == [j \in 1..Len(ls) |-> Trim(ls[j])]

Absent == [t |-> "absent", v |-> <<>>]
Str(v) == [t |-> "string", v |-> v]
Num == [t |-> "number", v |-> <<>>]

\* The objects a response may hold: each member absent, a string or a number.
Objects ==
    [action : {Absent, Str(create_file), Str(append_file), Str(insert_code),
               Str(<<"delete_file">>), Num},
     path : {Absent, Str(<<"a">>), Num},
     content : {Absent, Str(<<"x">>), Str(<<"{", "x", "}">>), Num}]

\* The JSON text of a value.
SerValue(val) == IF val.t = "string" THEN <<Quote>> \o val.v \o <<Quote>> ELSE <<"1">>

SerMember(key, val, sep) ==
    IF val.t = "absent" THEN <<>>
    ELSE sep \o <<Quote, key, Quote, ":">> \o SerValue(val)

\* The JSON text of an object: {"action":...,"path":...,"content":...} with the
\* absent members left out.
Ser(o) ==
    LET a == SerMember("action", o.action, <<>>)
        pa == SerMember("path", o.path, IF a = <<>> THEN <<>> ELSE <<",">>)
        c == SerMember("content", o.content, IF a \o pa = <<>> THEN <<>> ELSE <<",">>)
    IN <<"{">> \o a \o pa \o c \o <<"}">>

\* The same text without its closing brace.
Unclosed(o) == SubSeq(Ser(o), 1, Len(Ser(o)) - 1)

ProseChars == {" ", "x", "{", "}"}
Prose == SeqsUpTo(ProseChars, MaxProse)

ParseInputs ==
    {P \o J \o S : P \in Prose, S \in Prose,
                    J \in {Ser(o) : o \in Objects} \cup {Unclosed(o) : o \in Objects} \cup {<<>>}}

InitParse ==
    /\ pc = "call"
    /\ text \in ParseInputs
    /\ result = Null
    /\ ExecIdle
    /\ RequestIdle

ParseModelActionCall ==
    /\ pc = "call"
    /\ result' = parseModelAction(text)
    /\ pc' = "done"
    /\ UNCHANGED <<text, execVars, requestVars>>

NextParse == ParseModelActionCall

SpecParse == InitParse /\ [][NextParse]_vars

\* The text has braces to parse between.
HasCandidate(t) ==
    /\ startBraceOf(Trim(t)) # -1
    /\ endBraceOf(Trim(t)) > startBraceOf(Trim(t))

\* What JSON.parse makes of the text between the first '{' and the last '}'.
ParsedObject(t) == JsonParse(jsonCandidate(Trim(t)))

\* The result carries field exactly when the parsed object has it as a string,
\* with the same value.
CarriesIffString(field, key) ==
    /\ field \in DOMAIN result.value <=> HasString(ParsedObject(text).val, key)
    /\ field \in DOMAIN result.value => result.value[field] = ParsedObject(text).val.v[key].v

\* C3: parseModelAction never raises and returns null or a well-formed action:
\* its action is one of create_file, append_file, insert_code and is the parsed
\* object's; it carries path (content) exactly when the parsed object has a
\* string path (content), with that value; a parse failure, a missing or
\* non-string action and an unsupported action give null.
C3_ParserWellFormed ==
    pc = "done" =>
        /\ result.kind \in {"null", "action"}
        /\ result.kind = "action" =>
              /\ HasCandidate(text)
              /\ ParsedObject(text).ok
              /\ DOMAIN result.value \subseteq {"action", "path", "content"}
              /\ result.value.action \in validActions
              /\ HasString(ParsedObject(text).val, <<"action">>)
              /\ result.value.action = ParsedObject(text).val.v[<<"action">>].v
              /\ CarriesIffString("path", <<"path">>)
              /\ CarriesIffString("content", <<"content">>)
        /\ ( \/ ~HasCandidate(text)
             \/ ~ParsedObject(text).ok
             \/ ~HasString(ParsedObject(text).val, <<"action">>)
             \/ ParsedObject(text).val.v[<<"action">>].v \notin validActions )
              => result = Null

\* An object with a string path and a content that is no string, between two
\* words of prose, was parsed to an action with the path and without content.
C3_Witness ==
    /\ pc = "done"
    /\ text = <<"x">> \o Ser([action |-> Str(create_file), path |-> Str(<<"a">>), content |-> Num])
                 \o <<"x">>
    /\ result = Returned([action |-> create_file, path |-> <<"a">>])

\* The objects with a supported action.
Supported == {o \in Objects : o.action.t = "string" /\ o.action.v \in validActions}

\* The action an object describes.
ActionOf(o) ==
    LET base == [action |-> o.action.v]
        withPath == IF o.path.t = "string" THEN base @@ [path |-> o.path.v] ELSE base
    IN IF o.content.t = "string" THEN withPath @@ [content |-> o.content.v] ELSE withPath

\* C4: whatever prose stands before and after the JSON text J of an object with
\* a supported action, parseModelAction returns the action J describes.
C4_ToleratesProse ==
    pc = "done" =>
        \A o \in Supported :
            (\E i \in 0..Len(text) : OccursAt(text, Ser(o), i)) => result = Returned(ActionOf(o))

(***************************************************************************)
(* The webview provider (src/src/ui/webviewProvider.ts:62-272) and the     *)
(* backend call (src/src/services/llmService.ts:105-212).  One handler     *)
(* runs at a time; at an await on I/O it can be parked while another one   *)
(* runs.  The response body is a sequence of lines, each one JSON or not,  *)
(* with the value of its "response" member.                                *)
(***************************************************************************)
Line(json, response) == [json |-> json, response |-> response]

NetworkError == [kind |-> "networkError"]
BadStatus == [kind |-> "status"]
Body(lines) == [kind |-> "body", lines |-> lines]

Resolved(v) == [kind |-> "string", value |-> v]
Rejected == [kind |-> "error"]

\* (JSON.parse(line) as any).response || '' and '' where that throws; the
\* number of the model is 1.
PieceOf(line) ==
    IF ~line.json \/ line.response.t = "absent" THEN <<>>
    ELSE IF line.response.t = "string" THEN line.response.v
    ELSE <<"1">>

RECURSIVE combinedResponse(_)
combinedResponse(lines) ==
    IF lines = <<>> THEN <<>> ELSE PieceOf(Head(lines)) \o combinedResponse(Tail(lines))

\* callOllamaAPI from its fetch on (lines 128-185): the string it resolves to,
\* or Rejected.  JSON.parse takes a body of one JSON line; lines are the lines
\* of the body that are not blank.
callOllamaAPI(reply) ==
    IF reply.kind # "body" THEN Rejected
    ELSE LET lines == reply.lines IN
         IF Len(lines) = 1 /\ lines[1].json /\ lines[1].response.t = "string"
         THEN Resolved(lines[1].response.v)
         ELSE IF Len(lines) > 1 /\ combinedResponse(lines) # <<>>
         THEN Resolved(combinedResponse(lines))
         ELSE Rejected

\* A variant of HandlerOf that applies every request.
HandlerOfApplyAlways(type) ==
    IF type \in {"apply", "preview"} THEN "handleUserPrompt" ELSE "none"

\* The dispatch of onDidReceiveMessage (webviewProvider.ts:146-152).
HandlerOf(type) ==
    IF type = "apply" THEN "handleUserPrompt"
    ELSE IF type = "preview" THEN "handlePreviewPrompt"
    ELSE "none"

\* A variant of RouteOf that treats every response as text.
RouteOfText(modelAction) == "insertCodeResponse"

\* if (modelAction) ... else ... (webviewProvider.ts:206-229)
RouteOf(modelAction) ==
    IF modelAction # Null THEN "executeModelAction" ELSE "insertCodeResponse"

\* A variant of AfterBackendError that goes back to the call.
RetryAfterBackendError == "fetch"

\* Where a handler goes when generateResponseForUser rejects: its catch shows
\* the error and the handler ends (webviewProvider.ts:91-94, 231-234).
AfterBackendError == "idle"

CallBy(m, call, arg) == [request |-> m.request, call |-> call, arg |-> arg]

Post(m, type, rawResponse) ==
    [request |-> m.request, type |-> type, rawResponse |-> rawResponse]

\* The handler under way as it is kept while it waits.
Frame == [pc |-> pc, message |-> message, aiResponse |-> aiResponse, action |-> action,
          existingContent |-> existingContent]

\* The positions at which a handler waits for I/O.
IoAwaits == {"fetch", "mkdir", "op", "write", "open", "inserted", "textInserted"}

\* A variant of IsBlank that does not trim the prompt.
IsBlankUntrimmed(m) == "text" \notin DOMAIN m \/ m.text = <<>>

\* !userPrompt?.trim() (webviewProvider.ts:69, 183): the message has no text,
\* or its text trimmed is empty.
IsBlank(m) == "text" \notin DOMAIN m \/ Trim(m.text) = <<>>

\* A variant of PostApplied that posts nothing when the last message shown is
\* a warning or an error.
PostAppliedUnlessRefused ==
    /\ pc = "done"
    /\ message.handler = "handleUserPrompt"
    /\ posted' = IF shown # <<>> /\ shown[Len(shown)].level \in {"warning", "error"}
                 THEN posted
                 ELSE Append(posted, [request |-> message.request, type |-> "applied",
                                      rawResponse |-> aiResponse])
    /\ pc' = "idle"
    /\ message' = [request |-> 0, type |-> "none", text |-> <<>>, handler |-> "none"]
    /\ aiResponse' = <<>>
    /\ action' = NoAction
    /\ existingContent' = <<>>
    /\ UNCHANGED <<text, result, workspaceFolders, files, fsCalls, shown, opened, editor,
                   inserted, inbox, calls, parked, webview,
                   DEFAULT_LLM_CONFIG>>

\* onDidReceiveMessage (lines 141-159) with handleUserPrompt and
\* handlePreviewPrompt up to their await of generateResponseForUser, which
\* has issued its fetch (lines 69-83, 183-200; llmService.ts:130).
ReceiveMessage ==
    /\ pc = "idle"
    /\ inbox # <<>>
    /\ LET m == Head(inbox)
           handler == HandlerOf(m.type)
           normalizedPrompt == IF "text" \in DOMAIN m THEN Trim(m.text) ELSE <<>>
       IN
       /\ inbox' = Tail(inbox)
       /\ IF handler = "none"
          THEN UNCHANGED <<pc, message, calls, shown>>
          ELSE IF IsBlank(m)
          THEN /\ shown' = Append(shown, Message("warning", "enterPrompt"))
               /\ UNCHANGED <<pc, message, calls>>
          ELSE /\ message' = [request |-> m.request, type |-> m.type,
                              text |-> normalizedPrompt, handler |-> handler]
               /\ calls' = Append(calls, CallBy(m, "fetch", normalizedPrompt))
               /\ pc' = "fetch"
               /\ UNCHANGED shown
    /\ UNCHANGED <<text, result, workspaceFolders, action, files, fsCalls, opened, editor,
                   inserted, existingContent, aiResponse, posted, parked, webview,
                   DEFAULT_LLM_CONFIG>>

\* The handler under way has ended.
HandlerEnds ==
    /\ pc' = "idle"
    /\ message' = NoMessage
    /\ aiResponse' = <<>>
    /\ action' = NoAction
    /\ existingContent' = <<>>

\* generateResponseForUser settles (llmService.ts:130-185): with a string, or
\* with an error that the handler's catch shows.
BackendReplies(reply) ==
    /\ pc = "fetch"
    /\ LET answer == callOllamaAPI(reply) IN
       IF answer = Rejected
       THEN /\ shown' = Append(shown, Message("error", "backend"))
            /\ pc' = AfterBackendError
            /\ message' = IF AfterBackendError = "idle" THEN NoMessage ELSE message
            /\ UNCHANGED aiResponse
       ELSE /\ aiResponse' = answer.value
            /\ pc' = "respond"
            /\ UNCHANGED <<shown, message>>
    /\ UNCHANGED <<text, result, workspaceFolders, action, files, fsCalls, opened, editor,
                   inserted, existingContent, inbox, calls, posted, parked, webview,
                   DEFAULT_LLM_CONFIG>>

\* handlePreviewPrompt after its await (lines 84-90)
PostPreview ==
    /\ pc = "respond"
    /\ message.handler = "handlePreviewPrompt"
    /\ posted' = Append(posted, Post(message, "preview", aiResponse))
    /\ HandlerEnds
    /\ UNCHANGED <<text, result, workspaceFolders, files, fsCalls, shown, opened, editor,
                   inserted, inbox, calls, parked, webview,
                   DEFAULT_LLM_CONFIG>>

\* handleUserPrompt after its await, up to the call of executeModelAction or
\* of insertCodeResponse (lines 201-221).
RouteResponse ==
    /\ pc = "respond"
    /\ message.handler = "handleUserPrompt"
    /\ \E modelAction \in {parseModelAction(aiResponse)} :
       IF RouteOf(modelAction) = "executeModelAction"
       THEN /\ action' = modelAction.value
            /\ calls' = Append(calls, CallBy(message, "executeModelAction", modelAction.value))
            /\ pc' = "start"
       ELSE /\ calls' = Append(calls, CallBy(message, "insertCodeResponse", aiResponse))
            /\ pc' = "text"
            /\ UNCHANGED action
    /\ UNCHANGED <<text, result, workspaceFolders, files, fsCalls, shown, opened, editor,
                   inserted, existingContent, inbox, message, aiResponse, posted, parked, webview,
                   DEFAULT_LLM_CONFIG>>

\* insertCodeResponse up to its await of insertTextAtCursors (lines 247-266)
InsertCodeResponse ==
    /\ pc = "text"
    /\ LET cleanedCode == stripComments(unwrapCodeFence(aiResponse))
           guard == InsertionGuard(editor, cleanedCode)
       IN
       IF guard = "noEditor"
       THEN /\ shown' = Append(shown, Message("information", "noFileOpen"))
            /\ pc' = "done"
            /\ UNCHANGED inserted
       ELSE IF guard = "noCode"
       THEN /\ shown' = Append(shown, Message("warning", "noCodeReceived"))
            /\ pc' = "done"
            /\ UNCHANGED inserted
       ELSE /\ inserted' = inserted \o insertTextAtCursors(editor, cleanedCode)
            /\ pc' = "textInserted"
            /\ UNCHANGED shown
    /\ UNCHANGED <<text, result, workspaceFolders, action, files, fsCalls, opened, editor,
                   existingContent, requestVars>>

\* insertCodeResponse after the edit (lines 268-271)
ResponseInserted ==
    /\ pc = "textInserted"
    /\ shown' = Append(shown, Message("information", "inserted"))
    /\ pc' = "done"
    /\ UNCHANGED <<text, result, workspaceFolders, action, files, fsCalls, opened, editor,
                   inserted, existingContent, requestVars>>

\* handleUserPrompt after executeModelAction or insertCodeResponse has
\* returned (lines 212-216, 224-228).
PostApplied ==
    /\ pc = "done"
    /\ message.handler = "handleUserPrompt"
    /\ posted' = Append(posted, Post(message, "applied", aiResponse))
    /\ HandlerEnds
    /\ UNCHANGED <<text, result, workspaceFolders, files, fsCalls, shown, opened, editor,
                   inserted, inbox, calls, parked, webview,
                   DEFAULT_LLM_CONFIG>>

\* executeModelAction has thrown: the catch of handleUserPrompt (lines 231-234)
ShowApplyError ==
    /\ pc = "threw"
    /\ message.handler = "handleUserPrompt"
    /\ shown' = Append(shown, Message("error", "apply"))
    /\ HandlerEnds
    /\ UNCHANGED <<text, result, workspaceFolders, files, fsCalls, opened, editor,
                   inserted, inbox, calls, posted, parked, webview,
                   DEFAULT_LLM_CONFIG>>

\* The handler under way waits for I/O and another one gets to run.
Park ==
    /\ pc \in IoAwaits
    /\ inbox # <<>> \/ parked # {}
    /\ parked' = parked \cup {Frame}
    /\ HandlerEnds
    /\ UNCHANGED <<text, result, workspaceFolders, files, fsCalls, shown, opened, editor,
                   inserted, inbox, calls, posted, webview,
                   DEFAULT_LLM_CONFIG>>

\* The I/O a parked handler waits for has settled: it runs on.
Resume(frame) ==
    /\ pc = "idle"
    /\ frame \in parked
    /\ parked' = parked \ {frame}
    /\ pc' = frame.pc
    /\ message' = frame.message
    /\ aiResponse' = frame.aiResponse
    /\ action' = frame.action
    /\ existingContent' = frame.existingContent
    /\ UNCHANGED <<text, result, workspaceFolders, files, fsCalls, shown, opened, editor,
                   inserted, inbox, calls, posted, webview,
                   DEFAULT_LLM_CONFIG>>

(***************************************************************************)
(* SpecRequests: up to MaxRequests webview messages, each answered by the  *)
(* backend with a failure or with one of a few bodies.                     *)
(***************************************************************************)
ActionText(kind, path, content) ==
    Ser([action |-> Str(kind), path |-> path, content |-> Str(content)])

AppendX == ActionText(append_file, Str(<<"w">>), <<"x">>)
AppendY == ActionText(append_file, Str(<<"w">>), <<"y">>)
CreateInDir == ActionText(create_file, Str(<<"d", "/", "w">>), <<"x">>)
InsertA == ActionText(insert_code, Absent, <<"a">>)
Unsupported == ActionText(<<"delete_file">>, Str(<<"w">>), <<"x">>)
Escaping == ActionText(create_file, Str(<<".", ".", "/", "w">>), <<"x">>)
Pathless == ActionText(append_file, Absent, <<"x">>)
FencedCode == fenceMarker \o <<"j", "\n", "a", "\n">> \o fenceMarker
PlainCode == <<"a", "\n", "\n">>
CommentOnly == <<"/", "/", "a">>

Responses ==
    {AppendX, AppendY, CreateInDir, InsertA, Unsupported, Escaping, Pathless, FencedCode,
     PlainCode, CommentOnly, <<>>}

Replies ==
    {NetworkError, BadStatus, Body(<<>>)}
        \cup {Body(<<Line(TRUE, Str(r))>>) : r \in Responses}
        \cup {Body(<<Line(TRUE, Absent)>>), Body(<<Line(FALSE, Absent)>>),
              Body(<<Line(TRUE, Str(<<"a">>)), Line(TRUE, Num)>>),
              Body(<<Line(TRUE, Absent), Line(FALSE, Absent)>>)}

MessageKinds ==
    {[type |-> "apply", text |-> <<"p">>], [type |-> "apply", text |-> <<" ">>],
     [type |-> "preview", text |-> <<"p">>], [type |-> "preview", text |-> <<>>],
     [type |-> "apply"], [type |-> "preview"],
     [type |-> "ping", text |-> <<"p">>]}

\* The messages ms, each with its number.
Numbered(ms) ==
    [i \in 1..Len(ms) |-> [request |-> i] @@ ms[i]]

Inboxes == {Numbered(ms) : ms \in SeqsUpTo(MessageKinds, MaxRequests) \ {<<>>}}

InitRequests ==
    /\ pc = "idle"
    /\ text = <<>>
    /\ result = Null
    /\ workspaceFolders \in {<<>>, <<RootW>>}
    /\ action = NoAction
    /\ files \in {NoFiles, OneFile}
    /\ fsCalls = <<>>
    /\ shown = <<>>
    /\ opened = <<>>
    /\ editor \in {NoEditor, [present |-> TRUE, selections |-> 2]}
    /\ inserted = <<>>
    /\ existingContent = <<>>
    /\ inbox \in Inboxes
    /\ message = NoMessage
    /\ aiResponse = <<>>
    /\ calls = <<>>
    /\ posted = <<>>
    /\ parked = {}
    /\ webview = WebviewReady
    /\ DEFAULT_LLM_CONFIG = InitialLlmConfig

NextRequests ==
    \/ ReceiveMessage
    \/ \E reply \in Replies : BackendReplies(reply)
    \/ PostPreview
    \/ RouteResponse
    \/ InsertCodeResponse
    \/ ResponseInserted
    \/ PostApplied
    \/ ShowApplyError
    \/ Park
    \/ \E frame \in parked : Resume(frame)
    \/ HandleCodeInsertion
    \/ InsertionReported
    \/ HandleFileOperation
    \/ CreateDirectory
    \/ CreateDirectoryFails
    \/ CreateNewFile
    \/ AppendRead
    \/ AppendReadFails
    \/ AppendWrite
    \/ WriteFileFails
    \/ OpenDocument
    \/ OpenDocumentFails

SpecRequests == InitRequests /\ [][NextRequests]_vars

\* The calls of kind call that request r has made.
CallsBy(r, call) == SelectSeq(calls, LAMBDA c : c.request = r /\ c.call = call)

\* Request r has run executeModelAction with an append_file action and its
\* 'applied' message is posted.
Appended(r) ==
    /\ Len(CallsBy(r, "executeModelAction")) = 1
    /\ CallsBy(r, "executeModelAction")[1].arg.action = append_file
    /\ \E i \in 1..Len(posted) : posted[i].request = r /\ posted[i].type = "applied"

AppendTarget == <<"/", "w", "/", "w">>

\* The reads and writes of the append target, in the order they were made.
AppendOps ==
    LET on == SelectSeq(fsCalls, LAMBDA c : c.path = AppendTarget /\ c.op # "createDirectory")
    IN [i \in 1..Len(on) |-> on[i].op]

BothAppended == Appended(1) /\ Appended(2)

ReadsBeforeWrites == AppendOps = <<"readFile", "readFile", "writeFile", "writeFile">>

\* How many of the characters of t are appended contents ("x" or "y").
AppendedIn(t) == Cardinality({i \in 1..Len(t) : t[i] \in {"x", "y"}})

\* C13: when two append_file requests on one path have both read the file
\* before either has written it, the file ends up with the content of only
\* one of them; nothing keeps the two from running that way.
C13_ConcurrentAppendsLoseOne ==
    (BothAppended /\ ReadsBeforeWrites) => AppendedIn(Holds(files, AppendTarget)) = 1

\* Two appends, of "x" and of "y", to a file holding "e" have both finished,
\* both read before either wrote, and the file holds "e\ny" only.
C13_Witness ==
    /\ BothAppended
    /\ ReadsBeforeWrites
    /\ CallsBy(1, "executeModelAction")[1].arg.content = <<"x">>
    /\ CallsBy(2, "executeModelAction")[1].arg.content = <<"y">>
    /\ Holds(files, AppendTarget) = <<"e", "\n", "y">>

\* The step in which handleUserPrompt routes the response it has received.
Routing == pc = "respond" /\ message.handler = "handleUserPrompt"

\* The step in which insertCodeResponse makes its edit.
TextInserted == pc = "text" /\ pc' = "textInserted"

\* n insertions of the text t, one at each of the selections 1..n.
AtEveryCursor(n, t) == [i \in 1..n |-> [at |-> i, text |-> t]]

\* C16: a response of an apply request takes exactly one route.  If
\* parseModelAction yields an action, executeModelAction is called with it and
\* insertCodeResponse is not; otherwise insertCodeResponse is called and what
\* it inserts is stripComments(unwrapCodeFence(raw)).  A response without a
\* brace is never routed as an action, and no request makes both calls.
C16_OneRoute ==
    /\ [](\A r \in 1..MaxRequests :
             Len(CallsBy(r, "executeModelAction")) + Len(CallsBy(r, "insertCodeResponse")) <= 1)
    /\ [][/\ Routing =>
                LET modelAction == parseModelAction(aiResponse) IN
                /\ modelAction # Null =>
                      /\ calls' = Append(calls, CallBy(message, "executeModelAction",
                                                       modelAction.value))
                      /\ action' = modelAction.value
                      /\ pc' = "start"
                /\ modelAction = Null =>
                      /\ calls' = Append(calls, CallBy(message, "insertCodeResponse",
                                                       aiResponse))
                      /\ pc' = "text"
                /\ IndexOf(aiResponse, <<"{">>) = -1 => pc' = "text"
          /\ TextInserted =>
                inserted' = inserted \o AtEveryCursor(editor.selections,
                                stripComments(unwrapCodeFence(aiResponse)) \o <<"\n">>)
          /\ (pc = "start" /\ message.request # 0) =>
                CallsBy(message.request, "insertCodeResponse") = <<>>]_vars

\* A fenced code response went the text way: the code of the fence was
\* inserted and executeModelAction was not called.
C16_Witness ==
    /\ Len(calls) = 2
    /\ calls[2] = [request |-> 1, call |-> "insertCodeResponse", arg |-> FencedCode]
    /\ inserted = AtEveryCursor(2, <<"a", "\n">>)
    /\ posted # <<>>

\* The text that the insertion at hand cleans: the content of the insert_code
\* action, or the raw response.
InsertionSource == IF pc = "start" THEN ContentOf(action) ELSE aiResponse

\* C17: an insertion into an editor with n selections makes exactly n
\* insertions, one at each selection, all of the same string: the cleaned
\* text followed by one newline, and never by two.
C17_EveryCursorOneNewline ==
    [][inserted' # inserted =>
          LET n == editor.selections
              cleaned == stripComments(unwrapCodeFence(InsertionSource))
              t == inserted'[Len(inserted')].text
          IN /\ n >= 1
             /\ inserted' = inserted \o AtEveryCursor(n, t)
             /\ t = cleaned \o <<"\n">>
             /\ cleaned # <<>>
             /\ cleaned[Len(cleaned)] # "\n"]_vars

\* The response "a\n\n" was inserted at both cursors as "a\n".
C17_Witness ==
    /\ \E i \in 1..Len(calls) : calls[i].call = "insertCodeResponse" /\ calls[i].arg = PlainCode
    /\ inserted = AtEveryCursor(2, <<"a", "\n">>)

\* The step in which handleCodeInsertion or insertCodeResponse looks at the
\* editor and at the content.
Guarding == (pc = "start" /\ action.action = insert_code) \/ pc = "text"

\* C18: without an active editor an insert inserts nothing and throws
\* nothing; with an editor and a content that is empty once cleaned it inserts
\* nothing and shows a warning, not an error; the editor is looked at first.
C18_InsertionGuards ==
    [][Guarding =>
          /\ ~editor.present =>
                /\ inserted' = inserted
                /\ pc' = "done"
                /\ Len(shown') = Len(shown) + 1
                /\ shown'[Len(shown')].level = "information"
          /\ (editor.present /\ stripComments(unwrapCodeFence(InsertionSource)) = <<>>) =>
                /\ inserted' = inserted
                /\ pc' = "done"
                /\ Len(shown') = Len(shown) + 1
                /\ shown'[Len(shown')].level = "warning"]_vars

\* A response that is a comment only, with no editor open: the message about
\* the editor was shown, no warning, and nothing was inserted.
C18_Witness ==
    /\ editor = NoEditor
    /\ \E i \in 1..Len(calls) : calls[i].call = "insertCodeResponse" /\ calls[i].arg = CommentOnly
    /\ shown = <<Message("information", "noFileOpen")>>
    /\ inserted = <<>>
    /\ posted # <<>>

\* The step is one of the handling of a preview message.
PreviewStep ==
    \/ message.type = "preview"
    \/ (pc = "idle" /\ inbox # <<>> /\ inbox' # inbox /\ Head(inbox).type = "preview")

BlankPrompt(m) ==
    "text" \notin DOMAIN m \/ \A i \in 1..Len(m.text) : m.text[i] \in WhiteSpace

\* The step hands a message to onDidReceiveMessage.
Receiving == pc = "idle" /\ inbox # <<>> /\ inbox' # inbox

\* The backend call of the handler under way fails in this step.
BackendFailing == pc = "fetch" /\ shown' # shown

\* C20: an apply or preview message with a prompt that is not blank makes
\* exactly one call of the backend, and no other step makes one.  When the
\* call fails the error is shown at once and the handling ends: no second
\* call, no insertion, no file operation.
C20_OneCallNoRetry ==
    /\ [](\A r \in 1..MaxRequests : Len(CallsBy(r, "fetch")) <= 1)
    /\ [][/\ Receiving =>
                LET m == Head(inbox) IN
                IF m.type \in {"apply", "preview"} /\ ~BlankPrompt(m)
                THEN calls' = Append(calls, CallBy(m, "fetch", Trim(m.text)))
                ELSE calls' = calls
          /\ ~Receiving =>
                \A r \in 1..MaxRequests :
                    Len(SelectSeq(calls', LAMBDA c : c.request = r /\ c.call = "fetch"))
                        = Len(CallsBy(r, "fetch"))
          /\ BackendFailing =>
                /\ shown' = Append(shown, Message("error", "backend"))
                /\ pc' = "idle"
                /\ message' = NoMessage
                /\ parked' = parked
                /\ calls' = calls
                /\ inserted' = inserted
                /\ fsCalls' = fsCalls
                /\ files' = files
                /\ opened' = opened
                /\ posted' = posted]_vars

\* One request has ended with a failed backend call: one call, the error
\* shown, nothing inserted, no file system call.
C20_Witness ==
    /\ Len(calls) = 1
    /\ calls[1].call = "fetch"
    /\ shown = <<Message("error", "backend")>>
    /\ pc = "idle" /\ inbox = <<>> /\ parked = {}
    /\ inserted = <<>>
    /\ fsCalls = <<>>
    /\ posted = <<>>

\* C27: an apply or preview message whose prompt is absent, empty or made of
\* white space makes no backend call, no insertion in the editor, no file
\* operation and no message to the webview: the warning is shown and the
\* handling is over.
C27_BlankPromptDoesNothing ==
    [][(Receiving /\ Head(inbox).type \in {"apply", "preview"} /\ BlankPrompt(Head(inbox))) =>
          /\ shown' = Append(shown, Message("warning", "enterPrompt"))
          /\ pc' = "idle"
          /\ message' = NoMessage
          /\ parked' = parked
          /\ calls' = calls
          /\ inserted' = inserted
          /\ fsCalls' = fsCalls
          /\ files' = files
          /\ opened' = opened
          /\ posted' = posted]_vars

\* Two messages with blank prompts were handled: two warnings and nothing else.
C27_Witness ==
    /\ shown = <<Message("warning", "enterPrompt"), Message("warning", "enterPrompt")>>
    /\ pc = "idle" /\ inbox = <<>> /\ parked = {}
    /\ calls = <<>>
    /\ posted = <<>>
    /\ inserted = <<>>
    /\ fsCalls = <<>>

\* The 'applied' messages posted for request r.
AppliedFor(r) == SelectSeq(posted, LAMBDA p : p.request = r /\ p.type = "applied")

\* The step ends the apply handler under way.
ApplyEnding ==
    /\ message.handler = "handleUserPrompt"
    /\ pc # "idle"
    /\ message' = NoMessage
    /\ parked' = parked

\* C28: an apply request whose generation and execution do not throw posts
\* one 'applied' message, with the raw response, once executeModelAction or
\* insertCodeResponse has returned, whatever that step did or refused to do;
\* a request whose generation or execution throws posts none and shows an
\* error.  No request has more than one 'applied' message.
C28_AppliedWhateverTheOutcome ==
    /\ [](\A r \in 1..MaxRequests : Len(AppliedFor(r)) <= 1)
    /\ [][/\ ApplyEnding =>
                IF pc = "done"
                THEN /\ posted' = Append(posted, [request |-> message.request,
                                                  type |-> "applied",
                                                  rawResponse |-> aiResponse])
                     /\ shown' = shown
                     /\ \E i \in 1..Len(calls) :
                            /\ calls[i].request = message.request
                            /\ calls[i].call \in {"executeModelAction", "insertCodeResponse"}
                ELSE /\ posted' = posted
                     /\ Len(shown') = Len(shown) + 1
                     /\ shown'[Len(shown')].level = "error"
          /\ (message.handler = "handleUserPrompt" /\ ~ApplyEnding) => posted' = posted]_vars

\* The action of the response left the workspace and was refused: nothing was
\* written, and the 'applied' message was posted all the same.
C28_Witness ==
    /\ pc = "idle" /\ inbox = <<>> /\ parked = {}
    /\ shown = <<Message("error", "refused")>>
    /\ fsCalls = <<>>
    /\ posted = <<[request |-> 1, type |-> "applied", rawResponse |-> Escaping]>>

(***************************************************************************)
(* SpecComment: getCommentPrefix and getCommentSuffix                      *)
(* (src/src/utils/textProcessor.ts:31-59) applied to language              *)
(* identifiers.  An identifier is the sequence of the words it is made of: *)
(* <<"python">> is 'python', <<"python", "x">> is 'pythonx' and <<>> is    *)
(* the empty identifier.                                                   *)
(***************************************************************************)
python == <<"python">>
shellscript == <<"shellscript">>
yaml == <<"yaml">>
html == <<"html">>

HashPrefix == <<"#", " ">>
HtmlPrefix == <<"<", "!", "-", "-", " ">>
SlashPrefix == <<"/", "/", " ">>
HtmlSuffix == <<" ", "-", "-", ">">>

\* A variant of getCommentPrefix whose default is the hash.
getCommentPrefixHashDefault(langId) ==
    IF langId = html THEN HtmlPrefix ELSE HashPrefix

getCommentPrefix(langId) ==
    IF langId = python \/ langId = shellscript \/ langId = yaml THEN HashPrefix
    ELSE IF langId = html THEN HtmlPrefix
    ELSE SlashPrefix

getCommentSuffix(langId) == IF langId = html THEN HtmlSuffix ELSE <<>>

IdWords ==
    {"python", "shellscript", "yaml", "html", "HTML", "Python", "javascript", "json", "x"}

LanguageIds == SeqsUpTo(IdWords, MaxIdParts)

InitComment ==
    /\ pc = "call"
    /\ text \in LanguageIds
    /\ result = <<>>
    /\ ExecIdle
    /\ RequestIdle

GetCommentStyleCall ==
    /\ pc = "call"
    /\ result' = [prefix |-> getCommentPrefix(text), suffix |-> getCommentSuffix(text)]
    /\ pc' = "done"
    /\ UNCHANGED <<text, execVars, requestVars>>

NextComment == GetCommentStyleCall

SpecComment == InitComment /\ [][NextComment]_vars

\* C24: getCommentPrefix returns '# ' for python, shellscript and yaml,
\* '<!-- ' for html and '// ' for every other identifier, the unknown ones
\* and the empty one included; getCommentSuffix returns ' -->' for html and
\* the empty string for every other identifier.
C24_CommentStyleTotal ==
    pc = "done" =>
        /\ text \in {python, shellscript, yaml} => result.prefix = <<"#", " ">>
        /\ text = html => result.prefix = <<"<", "!", "-", "-", " ">>
        /\ text \notin {python, shellscript, yaml, html} => result.prefix = <<"/", "/", " ">>
        /\ text = html => result.suffix = <<" ", "-", "-", ">">>
        /\ text # html => result.suffix = <<>>

\* The empty identifier was given the default style.
C24_Witness ==
    /\ pc = "done"
    /\ text = <<>>
    /\ result = [prefix |-> <<"/", "/", " ">>, suffix |-> <<>>]

(***************************************************************************)
(* SpecWire: callOllamaAPI (src/src/services/llmService.ts:128-185)        *)
(* applied to the replies of the backend: a failed connection, a status    *)
(* that is not ok, and bodies of up to MaxLines lines.                     *)
(***************************************************************************)
WireLines ==
    {Line(TRUE, Str(<<>>)), Line(TRUE, Str(<<"a">>)), Line(TRUE, Str(<<"b">>)),
     Line(TRUE, Absent), Line(TRUE, Num), Line(FALSE, Absent)}

WireReplies ==
    {NetworkError, BadStatus} \cup {Body(lines) : lines \in SeqsUpTo(WireLines, MaxLines)}

InitWire ==
    /\ pc = "call"
    /\ text \in WireReplies
    /\ result = <<>>
    /\ ExecIdle
    /\ RequestIdle

CallOllamaAPICall ==
    /\ pc = "call"
    /\ result' = callOllamaAPI(text)
    /\ pc' = "done"
    /\ UNCHANGED <<text, execVars, requestVars>>

NextWire == CallOllamaAPICall

SpecWire == InitWire /\ [][NextWire]_vars

\* Every line is a JSON object with a string for its response.
EveryLineResponds(lines) ==
    /\ lines # <<>>
    /\ \A i \in 1..Len(lines) : lines[i].json /\ lines[i].response.t = "string"

\* The response strings of the lines, one after the other.
RECURSIVE Concatenated(_)
Concatenated(lines) ==
    IF lines = <<>> THEN <<>> ELSE Head(lines).response.v \o Concatenated(Tail(lines))

\* C23: for the body of a successful HTTP response that is one JSON object
\* with a string response, callOllamaAPI returns that string; for a body of
\* JSON objects, one per line, each with a string response, it returns the
\* strings concatenated in the order of the lines; for every such body it
\* returns and does not throw.
C23_WireContract ==
    (pc = "done" /\ text.kind = "body" /\ EveryLineResponds(text.lines)) =>
        result = Resolved(Concatenated(text.lines))

(***************************************************************************)
(* SpecWebview: the script of the webview page                             *)
(* (src/src/ui/webviewProvider.ts:590-757) with the provider behind it.    *)
(* The user types prompts and submits them, MaxRequests times at most; the *)
(* backend fails or answers with code.  Texts of the page are kept as      *)
(* their names.                                                            *)
(***************************************************************************)
\* The user types into the prompt input.
TypePrompt(value) ==
    /\ webview.sent < MaxRequests
    /\ webview.promptInput # value
    /\ webview' = [webview EXCEPT !.promptInput = value]
    /\ UNCHANGED <<pc, text, result, execVars, inbox, message, aiResponse, calls, posted,
                   parked, DEFAULT_LLM_CONFIG>>

\* submitPrompt(target) (lines 627-667): a click on one of the two buttons, or
\* the Enter key in the input.
SubmitPrompt(target) ==
    /\ webview.sent < MaxRequests
    /\ LET promptText == Trim(webview.promptInput)
           requestType == IF target = "preview" THEN "preview" ELSE "apply"
       IN
       IF promptText = <<>>
       THEN /\ webview' = [webview EXCEPT !.statusMessage = "enterPromptFirst"]
            /\ UNCHANGED inbox
       ELSE /\ inbox' = Append(inbox, [request |-> webview.sent + 1, type |-> requestType,
                                       text |-> promptText,
                                       model |-> webview.modelSelect])
            /\ webview' = [webview EXCEPT
                              !.lastResponse = <<>>,
                              !.hidden = (requestType # "preview"),
                              !.responseContent = IF requestType = "preview"
                                                  THEN <<"Waiting for response...">>
                                                  ELSE <<>>,
                              !.promptInput = <<>>,
                              !.activityLog = <<requestType \o " requested">> \o @,
                              !.statusMessage = IF requestType = "preview"
                                                THEN "generatingPreview" ELSE "processing",
                              !.sent = @ + 1]
    /\ UNCHANGED <<pc, text, result, execVars, message, aiResponse, calls, posted, parked,
                   DEFAULT_LLM_CONFIG>>

\* The listener of the page for the messages of the extension (lines 708-753).
WindowMessage ==
    /\ webview.received < Len(posted)
    /\ LET event == posted[webview.received + 1] IN
       webview' = [webview EXCEPT
                      !.received = @ + 1,
                      !.activityLog = <<event.type>> \o @,
                      !.statusMessage = IF event.type = "applied"
                                        THEN "completed" ELSE "previewReady",
                      !.lastResponse = event.rawResponse,
                      !.hidden = IF event.type = "preview" THEN FALSE ELSE @,
                      !.responseContent = IF event.type = "preview" \/ ~webview.hidden
                                          THEN event.rawResponse ELSE @]
    /\ UNCHANGED <<pc, text, result, execVars, inbox, message, aiResponse, calls, posted,
                   parked, DEFAULT_LLM_CONFIG>>

WebviewReplies == {NetworkError, Body(<<Line(TRUE, Str(PlainCode))>>)}

InitWebview ==
    /\ pc = "idle"
    /\ text = <<>>
    /\ result = Null
    /\ workspaceFolders = <<RootW>>
    /\ action = NoAction
    /\ files = NoFiles
    /\ fsCalls = <<>>
    /\ shown = <<>>
    /\ opened = <<>>
    /\ editor = [present |-> TRUE, selections |-> 1]
    /\ inserted = <<>>
    /\ existingContent = <<>>
    /\ RequestIdle

NextWebview ==
    \/ \E value \in {<<"p">>, <<" ">>} : TypePrompt(value)
    \/ \E target \in {"apply", "preview"} : SubmitPrompt(target)
    \/ WindowMessage
    \/ ReceiveMessage
    \/ \E reply \in WebviewReplies : BackendReplies(reply)
    \/ PostPreview
    \/ RouteResponse
    \/ InsertCodeResponse
    \/ ResponseInserted
    \/ PostApplied
    \/ Park
    \/ \E frame \in parked : Resume(frame)

SpecWebview == InitWebview /\ [][NextWebview]_vars

\* The handlers that have started and not ended: the one under way and the
\* ones that wait.
HandlersUnderWay == Cardinality(parked) + (IF pc = "idle" THEN 0 ELSE 1)

\* C21: the page lets no second submission through while an earlier one is
\* being processed: at every moment at most one generation request, its
\* network call with its apply or preview handling, is under way.
C21_NoOverlappingSubmissions == HandlersUnderWay <= 1

(***************************************************************************)
(* SpecConfig: up to MaxCalls calls of generateResponseForUser             *)
(* (src/src/services/llmService.ts:105-212), each with or without a model  *)
(* name, their fetches settling in any order.  inbox holds the arguments   *)
(* of the calls still to be made, calls the request payloads sent.         *)
(***************************************************************************)
\* const config = modelName ? { modelName } : {} (line 208)
ConfigOf(args) ==
    IF "modelName" \in DOMAIN args /\ args.modelName # ""
    THEN [modelName |-> args.modelName]
    ELSE <<>>

\* { ...DEFAULT_LLM_CONFIG, ...config } (line 111)
finalConfigOf(defaults, config) == config @@ defaults

\* requestPayload (lines 114-120)
requestPayload(prompt, finalConfig) ==
    [model |-> finalConfig.modelName, prompt |-> prompt,
     temperature |-> finalConfig.temperature, max_tokens |-> finalConfig.maxTokens,
     stream |-> finalConfig.stream]

\* A variant of DefaultsAfterMerge for a merge by Object.assign into the
\* exported object.
DefaultsAfterAssign(defaults, config) == config @@ defaults

\* DEFAULT_LLM_CONFIG after the merge of line 111: the spread copies it.
DefaultsAfterMerge(defaults, config) == defaults

\* generateResponseForUser up to the await of fetch in callOllamaAPI
\* (lines 199-211, 105-134).
GenerateResponseForUser ==
    /\ inbox # <<>>
    /\ LET args == Head(inbox)
           config == ConfigOf(args)
           finalConfig == finalConfigOf(DEFAULT_LLM_CONFIG, config)
           request == Len(calls) + 1
       IN
       /\ calls' = Append(calls, [request |-> request, call |-> "fetch",
                                  arg |-> requestPayload(args.userRequest, finalConfig)])
       /\ parked' = parked \cup {[pc |-> "fetch", request |-> request,
                                  finalConfig |-> finalConfig]}
       /\ DEFAULT_LLM_CONFIG' = DefaultsAfterMerge(DEFAULT_LLM_CONFIG, config)
    /\ inbox' = Tail(inbox)
    /\ UNCHANGED <<pc, text, result, execVars, message, aiResponse, posted, webview>>

\* The fetch of one of the calls settles (lines 130-185).
FetchSettles(frame) ==
    /\ frame \in parked
    /\ parked' = parked \ {frame}
    /\ UNCHANGED <<pc, text, result, execVars, inbox, message, aiResponse, calls, posted,
                   webview, DEFAULT_LLM_CONFIG>>

ModelNames == {"", "mistral:latest", "llama3.2:latest"}

CallArguments ==
    {[userRequest |-> <<"p">>]}
        \cup {[userRequest |-> <<"p">>, modelName |-> name] : name \in ModelNames}

InitConfig ==
    /\ pc = "idle"
    /\ text = <<>>
    /\ result = Null
    /\ ExecIdle
    /\ inbox \in SeqsUpTo(CallArguments, MaxCalls)
    /\ message = NoMessage
    /\ aiResponse = <<>>
    /\ calls = <<>>
    /\ posted = <<>>
    /\ parked = {}
    /\ webview = WebviewReady
    /\ DEFAULT_LLM_CONFIG = InitialLlmConfig

NextConfig ==
    \/ GenerateResponseForUser
    \/ \E frame \in parked : FetchSettles(frame)

SpecConfig == InitConfig /\ [][NextConfig]_vars

\* The step makes a call of generateResponseForUser.
Generating == inbox # <<>> /\ inbox' # inbox

\* The request payload sent last in the step.
Sent == calls'[Len(calls')].arg

\* C30 as stated: each request is sent with the model name passed to its
\* call, or with 'llama3.2:latest' when none is passed, and DEFAULT_LLM_CONFIG
\* is never modified.
C30_ModelNameAsPassed ==
    /\ [](DEFAULT_LLM_CONFIG = InitialLlmConfig)
    /\ [][Generating =>
             /\ Len(calls') = Len(calls) + 1
             /\ Sent.model = IF "modelName" \in DOMAIN Head(inbox)
                             THEN Head(inbox).modelName
                             ELSE "llama3.2:latest"]_vars

\* C30 (amended): each request is sent with the model name passed to its
\* call, or with 'llama3.2:latest' when none or the empty string is passed,
\* whatever the calls before it and the calls still in flight were given; the
\* other settings sent are the defaults, and DEFAULT_LLM_CONFIG is never
\* modified.
C30_NoConfigurationLeak ==
    /\ [](DEFAULT_LLM_CONFIG = InitialLlmConfig)
    /\ [][Generating =>
             /\ Len(calls') = Len(calls) + 1
             /\ SubSeq(calls', 1, Len(calls)) = calls
             /\ Sent.model = IF "modelName" \in DOMAIN Head(inbox) /\ Head(inbox).modelName # ""
                             THEN Head(inbox).modelName
                             ELSE "llama3.2:latest"
             /\ Sent.temperature = "0.7"
             /\ Sent.max_tokens = 100
             /\ Sent.stream = FALSE]_vars

\* A call with a model name, still in flight, was followed by a call without
\* one, which was sent with the default.
C30_Witness ==
    /\ Len(calls) = 2
    /\ calls[1].arg.model = "mistral:latest"
    /\ calls[2].arg.model = "llama3.2:latest"
    /\ \E frame \in parked : frame.request = 1
    /\ inbox = <<[userRequest |-> <<"p">>]>>

====
